---- MODULE Spec2Model ----
(***************************************************************************)
(* vault-nexus-eternal: the 40D hypercube store (src/src/core/store40d.py) *)
(* and the 46-page ELEPHANT_MEMORY engine                                  *)
(* (src/src/core/elephant_memory.py), the API server that serves them      *)
(* (src/src/api/api_server.py) and the orchestrator (src/main.py).         *)
(*                                                                         *)
(* Representation                                                          *)
(*   - a Python value is a tagged tuple: <<"int", n>>, <<"str", s>>,       *)
(*     <<"null">>; a dict is the sequence of its <<key, value>> items in   *)
(*     insertion order;                                                    *)
(*   - a SHA-256 genome is the canonical (key-sorted) serialisation it is  *)
(*     the digest of, wrapped as <<"sha256", canonical>>: the digest is    *)
(*     taken to be collision free;                                         *)
(*   - floats are fixed point: strength in tenths (10 = 1.0), money in     *)
(*     hundredths (care_mandate 15 = 0.15, care_pool 52500 = 525.0);       *)
(*   - a query result is the set of positions of the points returned (the  *)
(*     code builds the list by iterating a set of positions);              *)
(*   - wall-clock readings (timestamps, query latency, last_breath) are   *)
(*     not modelled, except that a timestamp is the one string "ts".       *)
(***************************************************************************)
EXTENDS Integers, Sequences, FiniteSets, TLC

\* store40d      the Store40D instance: data, index, care_pool, stats
\* elephant      the ElephantMemory instance: pages, genome_index, tag_index,
\*               generations, current_generation, stats, loop_count; heap holds
\*               the Memory objects, which pages and genome_index refer to by
\*               their position in it; store40d says whether a store is configured
\* pc            the step breath_cycle() is about to run, "idle" between calls
\* cycle_stats   the counts breath_cycle() has collected so far
\* cycle_entry   the engine as it was when the running breath_cycle() was
\*               called (what its caller saw), <<>> between calls
\* ret           the outcome of the most recent call
\* frame         the local variables of a trunk_sort() or store() call that is
\*               followed statement by statement, <<>> otherwise
\* files         the files export_json() and export_wisdom() have written:
\*               NoFile until then
\* api_state     the APIState object of api_server.py; its store40d and
\*               elephant fields say which instance they reference: "None",
\*               "vault" (the orchestrator's, the variables store40d and
\*               elephant) or "lifespan" (the ones in instances)
\* instances     the Store40D and the ElephantMemory that lifespan()
\*               constructs, "None" until then
\* tasks         where the orchestrator's main thread, the uvicorn server,
\*               the breath task and each websocket handler stand, and
\*               whether each websocket peer is still there
VARIABLES store40d, elephant, pc, cycle_stats, cycle_entry, ret, frame, files,
          api_state, instances, tasks

vars == <<store40d, elephant, pc, cycle_stats, cycle_entry, ret, frame, files,
          api_state, instances, tasks>>

api == <<api_state, instances, tasks>>

\* ------------------------------------------------------------------ bounds
MaxData == 3
MaxQueries == 1
MaxEcho == 1
MaxLoops == 2
MaxBulk == 11
MaxRecall == 3
MaxImports == 2
MaxClients == 2
MaxBreaths == 2

\* the websocket clients that may connect, each once
Clients == 1..MaxClients

\* ------------------------------------------------------------------ values
Null == <<"null">>
IntVal(n) == <<"int", n>>
StrVal(s) == <<"str", s>>

IsNull(v) == v[1] = "null"
IsInt(v) == v[1] = "int"
IsStr(v) == v[1] = "str"

Digits == <<"0", "1", "2", "3", "4", "5", "6", "7", "8", "9">>

RECURSIVE NatToStr(_)
NatToStr(n) ==
    IF n < 10 THEN Digits[n + 1]
    ELSE NatToStr(n \div 10) \o Digits[(n % 10) + 1]

\* str(value), as the f-string of the index key formats it
PyStr(v) ==
    IF IsInt(v) THEN (IF v[2] < 0 THEN "-" \o NatToStr(0 - v[2]) ELSE NatToStr(v[2]))
    ELSE IF IsStr(v) THEN v[2]
    ELSE "None"

\* ------------------------------------------------------------------ dicts
DictKeys(d) == {d[i][1] : i \in 1..Len(d)}
HasKey(d, k) == k \in DictKeys(d)

\* d.get(k, None)
DictGet(d, k) ==
    IF HasKey(d, k)
    THEN d[CHOOSE i \in 1..Len(d) : d[i][1] = k][2]
    ELSE Null

\* the keys the model uses, in the order Python sorts them
SortedKeys ==
    <<"brand", "elephant_generation", "elephant_page", "elephant_phase",
      "elephant_strength", "event", "genome", "note", "quality_score",
      "sector", "timestamp", "value", "year">>

KeyRank(k) == CHOOSE i \in 1..Len(SortedKeys) : SortedKeys[i] = k

RECURSIVE InsertSorted(_, _)
InsertSorted(s, item) ==
    IF s = <<>> THEN <<item>>
    ELSE IF KeyRank(item[1]) < KeyRank(s[1][1]) THEN <<item>> \o s
    ELSE <<s[1]>> \o InsertSorted(Tail(s), item)

RECURSIVE SortItems(_)
SortItems(d) ==
    IF d = <<>> THEN <<>>
    ELSE InsertSorted(SortItems(Tail(d)), d[1])

\* json.dumps(content, sort_keys=True) and its SHA-256 digest
_compute_genome_unsorted(d) == <<"sha256", d>>
_compute_genome(d) == <<"sha256", SortItems(d)>>

\* ------------------------------------------------------------------ schema
DIMENSION_NAMES ==
    <<"sector", "brand", "product_type", "market", "region",
      "customer_segment", "revenue_tier", "growth_stage", "partnership", "compliance_zone",
      "tech_stack", "version", "deployment_env", "latency_tier", "storage_type",
      "api_protocol", "security_level", "integration_type", "compute_tier", "network_zone",
      "year", "quarter", "month", "week", "day",
      "hour", "breath_cycle", "epoch", "milestone", "phase",
      "quality_score", "completeness", "verified", "confidence", "relevance",
      "freshness", "authority", "coverage", "accessibility", "consistency">>

NumDims == Len(DIMENSION_NAMES)

IsDimension(name) == \E i \in 1..NumDims : DIMENSION_NAMES[i] = name

\* DIMENSION_NAMES.index(name), zero based as in the code
DimIndex(name) == (CHOOSE i \in 1..NumDims : DIMENSION_NAMES[i] = name) - 1

_extract_coordinates(d) == [i \in 1..NumDims |-> DictGet(d, DIMENSION_NAMES[i])]

\* the index key f"D{i}:{value}"
IndexKey(i, v) == <<i, PyStr(v)>>

\* self.index.get(key, [])
IndexGet(idx, key) == IF key \in DOMAIN idx THEN idx[key] ELSE <<>>

IndexAppendTwice(idx, key, pos) ==
    [k \in (DOMAIN idx) \cup {key} |->
        IF k = key THEN Append(Append(IndexGet(idx, k), pos), pos) ELSE idx[k]]

\* self.index[key].append(pos) on a defaultdict(list)
IndexAppend(idx, key, pos) ==
    [k \in (DOMAIN idx) \cup {key} |->
        IF k = key THEN Append(IndexGet(idx, k), pos) ELSE idx[k]]

\* for i, value in enumerate(coords): if value is not None: index[...].append(pos)
RECURSIVE IndexCoordsShifted(_, _, _, _)
IndexCoordsShifted(idx, coords, i, pos) ==
    IF i >= NumDims THEN idx
    ELSE IndexCoordsShifted(IF IsNull(coords[i + 1]) THEN idx
                            ELSE IndexAppend(idx, IndexKey(i, coords[i + 1]), pos + 1),
                            coords, i + 1, pos)

RECURSIVE IndexCoords(_, _, _, _)
IndexCoords(idx, coords, i, pos) ==
    IF i >= NumDims THEN idx
    ELSE IndexCoords(IF IsNull(coords[i + 1]) THEN idx
                     ELSE IndexAppend(idx, IndexKey(i, coords[i + 1]), pos),
                     coords, i + 1, pos)

\* ------------------------------------------------------------------ Store40D
\* Store40D(care_mandate=0.15), in hundredths
care_mandate == 15

StoreInit ==
    [data |-> <<>>, index |-> <<>>, care_pool |-> 0,
     stats |-> [total_stored |-> 0, total_queries |-> 0, care_redistributed |-> 0]]

\* data["value"] * self.care_mandate raises TypeError unless the value is a number
CareMultiplies(d) == IsInt(DictGet(d, "value"))

\* care_amount = data["value"] * self.care_mandate
CareAmountNoMandate(d) == DictGet(d, "value")[2]
CareAmount(d) == DictGet(d, "value")[2] * care_mandate

\* self.data.append(point): unconditional
AppendPointOnce(points, point) ==
    IF \E p \in 1..Len(points) : points[p].genome = point.genome
    THEN points ELSE Append(points, point)
AppendPoint(points, point) == Append(points, point)

\* Store40D.store: the point is appended and indexed before the CARE-15
\* arithmetic, which is where a non-numeric "value" raises
store(S, d) ==
    LET genome == _compute_genome(d)
        coords == _extract_coordinates(d)
        point  == [genome |-> genome, data |-> d, coordinates |-> coords]
        data1  == AppendPoint(S.data, point)
        index1 == IndexCoords(S.index, coords, 0, Len(data1) - 1)
        S1     == [S EXCEPT !.data = data1, !.index = index1]
    IN  IF ~HasKey(d, "value")
        THEN [state |-> [S1 EXCEPT !.stats.total_stored = @ + 1],
              raised |-> FALSE, result |-> genome]
        ELSE IF ~CareMultiplies(d)
        THEN [state |-> S1, raised |-> TRUE, result |-> "TypeError"]
        ELSE LET care_amount == CareAmount(d)
             IN  [state |-> [S1 EXCEPT !.care_pool = @ + care_amount,
                                       !.stats.care_redistributed = @ + care_amount,
                                       !.stats.total_stored = @ + 1],
                  raised |-> FALSE, result |-> genome]

\* the strings the model uses as values, in the order Python compares them
SortedStrings == <<"1", "None", "abc", "acme", "ai", "bio">>

StrRank(x) == CHOOSE i \in 1..Len(SortedStrings) : SortedStrings[i] = x

\* a < b, a > b, ... is defined between two numbers and between two strings
Comparable(a, b) == (IsInt(a) /\ IsInt(b)) \/ (IsStr(a) /\ IsStr(b))

Ord(v) == IF IsInt(v) THEN v[2] ELSE StrRank(v[2])

RangeOps == {">", "<", ">=", "<="}

\* the chain of "operator == ... and coord_value ... value" tests
RangeTestStrict(op, coord_value, value) ==
    \/ op \in {">", ">="} /\ Ord(coord_value) > Ord(value)
    \/ op \in {"<", "<="} /\ Ord(coord_value) < Ord(value)

RangeTest(op, coord_value, value) ==
    \/ op = ">"  /\ Ord(coord_value) > Ord(value)
    \/ op = "<"  /\ Ord(coord_value) < Ord(value)
    \/ op = ">=" /\ Ord(coord_value) >= Ord(value)
    \/ op = "<=" /\ Ord(coord_value) <= Ord(value)

SeqToSet(s) == {s[i] : i \in 1..Len(s)}

\* operators.get(dim_name, "==")
OperatorGet(operators, name) ==
    IF HasKey(operators, name)
    THEN operators[CHOOSE i \in 1..Len(operators) : operators[i][1] = name][2]
    ELSE "=="

\* the comparison of a range scan raises TypeError on the first point whose
\* coordinate cannot be ordered against the threshold
FilterRaises(S, dim_idx, op, value) ==
    /\ op \in RangeOps
    /\ \E p \in 1..Len(S.data) :
          /\ ~IsNull(S.data[p].coordinates[dim_idx + 1])
          /\ ~Comparable(S.data[p].coordinates[dim_idx + 1], value)

\* the positions one filter selects
FilterIndices(S, dim_idx, op, value) ==
    IF op = "=="
    THEN SeqToSet(IndexGet(S.index, IndexKey(dim_idx, value)))
    ELSE IF op = "in"
    THEN UNION {SeqToSet(IndexGet(S.index, IndexKey(dim_idx, value[2][j]))) :
                    j \in 1..Len(value[2])}
    ELSE {p - 1 : p \in {q \in 1..Len(S.data) :
                    /\ ~IsNull(S.data[q].coordinates[dim_idx + 1])
                    /\ RangeTest(op, S.data[q].coordinates[dim_idx + 1], value)}}

RECURSIVE QueryLoopUnknownMatchesNothing(_, _, _, _, _)
QueryLoopUnknownMatchesNothing(S, filters, operators, i, cand) ==
    IF i > Len(filters) THEN cand
    ELSE LET dim_name == filters[i][1]
             value    == filters[i][2]
         IN  IF ~IsDimension(dim_name)
             THEN QueryLoopUnknownMatchesNothing(S, filters, operators, i + 1,
                      [none |-> FALSE, set |-> {}, raised |-> FALSE])
             ELSE LET dim_idx == DimIndex(dim_name)
                      op      == OperatorGet(operators, dim_name)
                  IN  IF FilterRaises(S, dim_idx, op, value)
                      THEN [none |-> FALSE, set |-> {}, raised |-> TRUE]
                      ELSE LET indices == FilterIndices(S, dim_idx, op, value)
                           IN  QueryLoopUnknownMatchesNothing(S, filters, operators, i + 1,
                                   [none |-> FALSE,
                                    set |-> IF cand.none THEN indices
                                            ELSE cand.set \cap indices,
                                    raised |-> FALSE])

RECURSIVE QueryLoopUnion(_, _, _, _, _)
QueryLoopUnion(S, filters, operators, i, cand) ==
    IF i > Len(filters) THEN cand
    ELSE LET dim_name == filters[i][1]
             value    == filters[i][2]
         IN  IF ~IsDimension(dim_name)
             THEN QueryLoopUnion(S, filters, operators, i + 1, cand)
             ELSE LET dim_idx == DimIndex(dim_name)
                      op      == OperatorGet(operators, dim_name)
                  IN  IF FilterRaises(S, dim_idx, op, value)
                      THEN [none |-> FALSE, set |-> {}, raised |-> TRUE]
                      ELSE LET indices == FilterIndices(S, dim_idx, op, value)
                           IN  QueryLoopUnion(S, filters, operators, i + 1,
                                   [none |-> FALSE,
                                    set |-> IF cand.none THEN indices
                                            ELSE cand.set \cup indices,
                                    raised |-> FALSE])

\* the loop over filters.items(); cand.none is candidate_indices is None
RECURSIVE QueryLoop(_, _, _, _, _)
QueryLoop(S, filters, operators, i, cand) ==
    IF i > Len(filters) THEN cand
    ELSE LET dim_name == filters[i][1]
             value    == filters[i][2]
         IN  IF ~IsDimension(dim_name)
             THEN QueryLoop(S, filters, operators, i + 1, cand)
             ELSE LET dim_idx == DimIndex(dim_name)
                      op      == OperatorGet(operators, dim_name)
                  IN  IF FilterRaises(S, dim_idx, op, value)
                      THEN [none |-> FALSE, set |-> {}, raised |-> TRUE]
                      ELSE LET indices == FilterIndices(S, dim_idx, op, value)
                           IN  QueryLoop(S, filters, operators, i + 1,
                                   [none |-> FALSE,
                                    set |-> IF cand.none THEN indices
                                            ELSE cand.set \cap indices,
                                    raised |-> FALSE])

\* Store40D.query
query(S, filters, operators) ==
    LET cand == QueryLoop(S, filters, operators, 1,
                          [none |-> TRUE, set |-> {}, raised |-> FALSE])
    IN  IF cand.raised
        THEN [state |-> S, raised |-> TRUE, result |-> "TypeError"]
        ELSE [state |-> [S EXCEPT !.stats.total_queries = @ + 1],
              raised |-> FALSE,
              result |-> IF cand.none THEN {} ELSE cand.set]

\* no file has been written to the path yet
NoFile == <<>>

\* Store40D.export_json: the statistics and every point of self.data, as JSON.
\* The values of the model (numbers, strings, null, string-keyed mappings in
\* their order) are the ones json.dump and json.load map to themselves.
export_json(S) ==
    <<[stats |-> S.stats @@ [care_pool |-> S.care_pool], data |-> S.data]>>

\* the loop of import_json: store(point["data"]) for each point of the file,
\* in order; the point's genome is read and not used; a store that raises
\* ends the import where it is
RECURSIVE ImportReplay(_, _, _)
ImportReplay(S, points, i) ==
    IF i > Len(points)
    THEN [state |-> S, raised |-> FALSE, result |-> <<>>]
    ELSE LET r == store(S, points[i].data)
         IN  IF r.raised
             THEN r
             ELSE ImportReplay(r.state, points, i + 1)

\* Store40D.import_json: data and index are emptied, the pool and the
\* statistics are not, then the points of the file are stored again
import_json(S, file) ==
    IF file = NoFile
    THEN [state |-> S, raised |-> TRUE, result |-> "FileNotFoundError"]
    ELSE ImportReplay([S EXCEPT !.data = <<>>, !.index = <<>>], file[1].data, 1)

\* ------------------------------------------------------------------ ElephantMemory
TOTAL_PAGES == 46

PhaseOrder ==
    <<"INTAKE", "TRUNK_SORT", "HERD_CONSENSUS", "MEMORY_ENCODE",
      "GENERATIONAL_PASS", "ECHO_AMPLIFY">>

\* PHASES: the pages of each phase
PHASES ==
    [ph \in SeqToSet(PhaseOrder) |->
        CASE ph = "INTAKE"            -> 1..8
          [] ph = "TRUNK_SORT"        -> 9..16
          [] ph = "HERD_CONSENSUS"    -> 17..24
          [] ph = "MEMORY_ENCODE"     -> 25..32
          [] ph = "GENERATIONAL_PASS" -> 33..40
          [] ph = "ECHO_AMPLIFY"      -> 41..46]

ElephantInit(configured) ==
    [store40d |-> configured,
     pages |-> [i \in 1..TOTAL_PAGES |-> <<>>],
     heap |-> <<>>,
     genome_index |-> <<>>,
     tag_index |-> <<>>,
     generations |-> <<>>,
     current_generation |-> 0,
     stats |-> [total_memories |-> 0, total_echoes |-> 0, total_generations |-> 0,
                herd_validations |-> 0, phase_transitions |-> 0],
     loop_count |-> 0]

\* d[k] = v on a dict: an existing key keeps its place
DictSet(d, k, v) ==
    IF HasKey(d, k)
    THEN [i \in 1..Len(d) |-> IF d[i][1] = k THEN <<k, v>> ELSE d[i]]
    ELSE Append(d, <<k, v>>)

\* the dict _store_in_40d builds: the content and the lifecycle keys
Data40D(memory) ==
    LET d1 == DictSet(memory.content, "genome", memory.genome)
        d2 == DictSet(d1, "elephant_phase", StrVal(memory.phase))
        d3 == DictSet(d2, "elephant_page", IntVal(memory.page))
        d4 == DictSet(d3, "elephant_generation", IntVal(memory.generation))
        d5 == DictSet(d4, "elephant_strength", IntVal(memory.strength))
    IN  DictSet(d5, "timestamp", memory.timestamp)

\* tag_index is a dict whose order of keys matters (_get_top_tags sorts its
\* items stably): the sequence of its <<tag, genomes>> items
\* self.tag_index.get(tag, [])
TagGet(tidx, tag) ==
    IF HasKey(tidx, tag)
    THEN tidx[CHOOSE i \in 1..Len(tidx) : tidx[i][1] = tag][2]
    ELSE <<>>

\* for tag in memory.tags: self.tag_index[tag].append(genome)
RECURSIVE TagIndexAdd(_, _, _, _)
TagIndexAdd(tidx, tags, i, genome) ==
    IF i > Len(tags) THEN tidx
    ELSE TagIndexAdd(DictSet(tidx, tags[i], Append(TagGet(tidx, tags[i]), genome)),
                     tags, i + 1, genome)

\* the branch of ingest for a genome that is already in genome_index
EchoExistingTwice(E, genome) ==
    [E EXCEPT !.heap[E.genome_index[genome]].echo_count = @ + 2,
              !.stats.total_echoes = @ + 1]
EchoExistingCounted(E, genome) ==
    [E EXCEPT !.heap[E.genome_index[genome]].echo_count = @ + 1,
              !.stats.total_echoes = @ + 1,
              !.stats.total_memories = @ + 1]
EchoExisting(E, genome) ==
    [E EXCEPT !.heap[E.genome_index[genome]].echo_count = @ + 1,
              !.stats.total_echoes = @ + 1]

\* ElephantMemory.ingest with _store_in_40d; S is the configured store
ingest(E, S, content, tags) ==
    LET genome == _compute_genome(content)
    IN  IF genome \in DOMAIN E.genome_index
        THEN [elephant |-> EchoExisting(E, genome),
              store40d |-> S, raised |-> FALSE, result |-> genome]
        ELSE LET memory == [content |-> content, timestamp |-> StrVal("ts"),
                            genome |-> genome, strength |-> 10, phase |-> "INTAKE",
                            page |-> 1, generation |-> E.current_generation,
                            herd_validations |-> 0, echo_count |-> 0,
                            tags |-> tags, associations |-> <<>>]
                 oid == Len(E.heap) + 1
                 E1 == [E EXCEPT !.heap = Append(@, memory),
                                 !.pages[1] = Append(@, oid),
                                 !.genome_index = [g \in (DOMAIN @) \cup {genome} |->
                                                      IF g = genome THEN oid ELSE @[g]],
                                 !.tag_index = TagIndexAdd(@, tags, 1, genome),
                                 !.stats.total_memories = @ + 1]
             IN  IF ~E.store40d
                 THEN [elephant |-> E1, store40d |-> S, raised |-> FALSE, result |-> genome]
                 ELSE LET r == store(S, Data40D(memory))
                      IN  [elephant |-> E1, store40d |-> r.state, raised |-> r.raised,
                           result |-> IF r.raised THEN r.result ELSE genome]

\* list.remove(memory): drops the first element equal to the memory, and a
\* dataclass compares field by field
RECURSIVE RemoveFirstEqual(_, _, _)
RemoveFirstEqual(page, heap, oid) ==
    IF page = <<>> THEN <<>>
    ELSE IF heap[page[1]] = heap[oid] THEN Tail(page)
    ELSE <<page[1]>> \o RemoveFirstEqual(Tail(page), heap, oid)

\* the second loop of a step: remove each promoted memory from its page and
\* append it to the first page of the next phase
RECURSIVE MoveMemoriesKeeping(_, _, _, _, _, _)
MoveMemoriesKeeping(pages, heap, moving, i, from_page, to_page) ==
    IF i > Len(moving) THEN pages
    ELSE MoveMemoriesKeeping([pages EXCEPT ![to_page] = Append(@, moving[i])],
                             heap, moving, i + 1, from_page, to_page)

RECURSIVE MoveMemories(_, _, _, _, _, _)
MoveMemories(pages, heap, moving, i, from_page, to_page) ==
    IF i > Len(moving) THEN pages
    ELSE MoveMemories(
            [pages EXCEPT ![from_page] = RemoveFirstEqual(@, heap, moving[i]),
                          ![to_page] = Append(@, moving[i])],
            heap, moving, i + 1, from_page, to_page)

\* trunk_sort: the promotion test and what promotion assigns
TrunkSortSelectEchoed(m) == m.echo_count > 0
TrunkSortSelect(m) == m.strength >= 5 \/ m.echo_count > 0
TrunkSortPromoteSkipping(m) == [m EXCEPT !.phase = "HERD_CONSENSUS", !.page = 9]
TrunkSortPromote(m) == [m EXCEPT !.phase = "TRUNK_SORT", !.page = 9]

Min(a, b) == IF a < b THEN a ELSE b

\* herd_consensus: the validation every TRUNK_SORT memory gets, the
\* promotion test and what promotion assigns
HerdTouchTwice(m) == [m EXCEPT !.herd_validations = @ + 2]
HerdTouch(m) == [m EXCEPT !.herd_validations = @ + 1]
HerdSelectAtOnce(m) == m.herd_validations >= 1
HerdSelect(m) == m.herd_validations >= 2
HerdPromoteUncapped(m) ==
    [m EXCEPT !.phase = "HERD_CONSENSUS", !.page = 17, !.strength = @ + 1]
HerdPromote(m) ==
    [m EXCEPT !.phase = "HERD_CONSENSUS", !.page = 17, !.strength = Min(10, @ + 1)]

max_associations == 5

\* ElephantMemory._find_associations: tags in their order, each tag's
\* genomes in tag_index order, until max_associations are found
RECURSIVE FindAssociations(_, _, _, _, _)
FindAssociations(tidx, memory, i, j, associations) ==
    IF Len(associations) >= max_associations \/ i > Len(memory.tags) THEN associations
    ELSE LET related_genomes == TagGet(tidx, memory.tags[i])
         IN  IF j > Len(related_genomes)
             THEN FindAssociations(tidx, memory, i + 1, 1, associations)
             ELSE LET genome == related_genomes[j]
                  IN  IF genome # memory.genome /\ genome \notin SeqToSet(associations)
                      THEN FindAssociations(tidx, memory, i, j + 1,
                                            Append(associations, genome))
                      ELSE FindAssociations(tidx, memory, i, j + 1, associations)

_find_associations_last_tag_first(tidx, memory) ==
    FindAssociations(tidx,
                     [memory EXCEPT !.tags = [k \in 1..Len(@) |-> @[Len(@) + 1 - k]]],
                     1, 1, <<>>)
_find_associations_self(tidx, memory) ==
    FindAssociations(tidx, memory, 1, 1, <<memory.genome>>)
_find_associations(tidx, memory) == FindAssociations(tidx, memory, 1, 1, <<>>)

\* memory_encode, generational_pass, echo_amplify: what promotion assigns
EncodePromote(m, tidx) ==
    [m EXCEPT !.associations = _find_associations(tidx, m),
              !.phase = "MEMORY_ENCODE", !.page = 25, !.strength = 10]
GenerationalPromote(m) == [m EXCEPT !.phase = "GENERATIONAL_PASS", !.page = 33]
EchoPromote(m) ==
    [m EXCEPT !.echo_count = @ + 1, !.phase = "ECHO_AMPLIFY", !.page = 41]

\* the five steps share one shape; these give, per step, the phase it reads,
\* the pages it walks, the page it fills and the body of its first loop
SourcePhase(step) ==
    CASE step = "trunk_sort"        -> "INTAKE"
      [] step = "herd_consensus"    -> "TRUNK_SORT"
      [] step = "memory_encode"     -> "HERD_CONSENSUS"
      [] step = "generational_pass" -> "MEMORY_ENCODE"
      [] step = "echo_amplify"      -> "GENERATIONAL_PASS"

TargetPage(step) ==
    CASE step = "trunk_sort"        -> 9
      [] step = "herd_consensus"    -> 17
      [] step = "memory_encode"     -> 25
      [] step = "generational_pass" -> 33
      [] step = "echo_amplify"      -> 41

Touch(step, m) == IF step = "herd_consensus" THEN HerdTouch(m) ELSE m

Select(step, m) ==
    CASE step = "trunk_sort"     -> TrunkSortSelect(m)
      [] step = "herd_consensus" -> HerdSelect(m)
      [] OTHER                   -> TRUE

Promote(step, m, tidx) ==
    CASE step = "trunk_sort"        -> TrunkSortPromote(m)
      [] step = "herd_consensus"    -> HerdPromote(m)
      [] step = "memory_encode"     -> EncodePromote(m, tidx)
      [] step = "generational_pass" -> GenerationalPromote(m)
      [] step = "echo_amplify"      -> EchoPromote(m)

\* the first loop of a step over one page: every memory of the page whose
\* phase is the source phase is touched, and promoted when Select holds
RECURSIVE ScanPage(_, _, _, _, _, _)
ScanPage(step, heap, tidx, page, i, moving) ==
    IF i > Len(page) THEN [heap |-> heap, moving |-> moving]
    ELSE LET oid == page[i]
         IN  IF heap[oid].phase # SourcePhase(step)
             THEN ScanPage(step, heap, tidx, page, i + 1, moving)
             ELSE LET touched == Touch(step, heap[oid])
                  IN  IF Select(step, touched)
                      THEN ScanPage(step, [heap EXCEPT ![oid] = Promote(step, touched, tidx)],
                                    tidx, page, i + 1, Append(moving, oid))
                      ELSE ScanPage(step, [heap EXCEPT ![oid] = touched],
                                    tidx, page, i + 1, moving)

\* the loop of a step over the pages of its source phase, from page p on
RECURSIVE AdvancePages(_, _, _, _, _)
AdvancePages(step, E, p, last, count) ==
    IF p > last THEN [elephant |-> E, count |-> count]
    ELSE LET scan == ScanPage(step, E.heap, E.tag_index, E.pages[p], 1, <<>>)
             pages1 == MoveMemories(E.pages, scan.heap, scan.moving, 1, p, TargetPage(step))
         IN  AdvancePages(step, [E EXCEPT !.heap = scan.heap, !.pages = pages1],
                          p + 1, last, count + Len(scan.moving))

\* ElephantMemory.trunk_sort
trunk_sort(E) ==
    LET r == AdvancePages("trunk_sort", E, 1, 8, 0)
    IN  [elephant |-> IF r.count > 0
                      THEN [r.elephant EXCEPT !.stats.phase_transitions = @ + r.count]
                      ELSE r.elephant,
         count |-> r.count]

\* ElephantMemory.herd_consensus
herd_consensus(E) ==
    LET r == AdvancePages("herd_consensus", E, 9, 16, 0)
    IN  [elephant |-> [r.elephant EXCEPT !.stats.herd_validations = @ + r.count],
         count |-> r.count]

\* ElephantMemory.memory_encode
memory_encode(E) == AdvancePages("memory_encode", E, 17, 24, 0)

\* the memories held in the pages, page by page, as pages.values() yields them
RECURSIVE HeldFrom(_, _)
HeldFrom(pages, p) ==
    IF p > TOTAL_PAGES THEN <<>> ELSE pages[p] \o HeldFrom(pages, p + 1)

Held(E) == HeldFrom(E.pages, 1)

RECURSIVE SumStrength(_, _, _)
SumStrength(heap, held, i) ==
    IF i > Len(held) THEN 0 ELSE heap[held[i]].strength + SumStrength(heap, held, i + 1)

\* ElephantMemory._calculate_avg_strength: the quotient total / count is kept
\* as the fraction num / den, 0.0 as 0 / 1
_calculate_avg_strength(E) ==
    IF E.stats.total_memories = 0 THEN [num |-> 0, den |-> 1]
    ELSE IF Len(Held(E)) > 0
    THEN [num |-> SumStrength(E.heap, Held(E), 1), den |-> Len(Held(E))]
    ELSE [num |-> 0, den |-> 1]

\* list.sort(key=count, reverse=True) is stable: an item goes after the items
\* whose count is at least its own
RECURSIVE InsertByCount(_, _)
InsertByCount(s, item) ==
    IF s = <<>> THEN <<item>>
    ELSE IF s[1][2] >= item[2] THEN <<s[1]>> \o InsertByCount(Tail(s), item)
    ELSE <<item>> \o s

RECURSIVE SortByCount(_, _)
SortByCount(items, i) ==
    IF i = 0 THEN <<>> ELSE InsertByCount(SortByCount(items, i - 1), items[i])

\* ElephantMemory._get_top_tags
_get_top_tags(E, limit) ==
    LET tag_counts == [i \in 1..Len(E.tag_index) |->
                          <<E.tag_index[i][1], Len(E.tag_index[i][2])>>]
        sorted == SortByCount(tag_counts, Len(tag_counts))
    IN  SubSeq(sorted, 1, Min(limit, Len(sorted)))

\* ElephantMemory._count_by_phase: the dict of the phases that occur
_count_by_phase(E) ==
    LET held == Held(E)
        occurring == {E.heap[held[i]].phase : i \in 1..Len(held)}
    IN  [ph \in occurring |->
            Cardinality({i \in 1..Len(held) : E.heap[held[i]].phase = ph})]

\* ElephantMemory._create_generation_snapshot
_create_generation_snapshot(E) ==
    LET generation_wisdom ==
            [generation |-> E.current_generation,
             timestamp |-> StrVal("ts"),
             total_memories |-> E.stats.total_memories,
             avg_strength |-> _calculate_avg_strength(E),
             top_tags |-> _get_top_tags(E, 10),
             memory_count_by_phase |-> _count_by_phase(E)]
    IN  [E EXCEPT !.generations = Append(@, generation_wisdom),
                  !.current_generation = @ + 1,
                  !.stats.total_generations = @ + 1]

\* ElephantMemory.generational_pass
\* if passed_count > 10
SnapshotDueFromTen(passed_count) == passed_count >= 10
SnapshotDue(passed_count) == passed_count > 10

generational_pass(E) ==
    LET r == AdvancePages("generational_pass", E, 25, 32, 0)
    IN  [elephant |-> IF SnapshotDue(r.count)
                      THEN _create_generation_snapshot(r.elephant)
                      ELSE r.elephant,
         count |-> r.count]

\* echo_amplify that leaves stats["total_echoes"] alone
echo_amplify_uncounted(E) == AdvancePages("echo_amplify", E, 33, 40, 0)

\* ElephantMemory.echo_amplify
echo_amplify(E) ==
    LET r == AdvancePages("echo_amplify", E, 33, 40, 0)
    IN  [elephant |-> [r.elephant EXCEPT !.stats.total_echoes = @ + r.count],
         count |-> r.count]

\* get_generational_wisdom(generation) that reads the archive by position
get_generational_wisdom_at(E, generation) ==
    IF generation + 2 \in 1..Len(E.generations)
    THEN <<E.generations[generation + 2]>>
    ELSE <<>>

\* ElephantMemory.get_generational_wisdom(generation): the first snapshot of
\* the archive that carries the number, <<>> for the empty dict
get_generational_wisdom(E, generation) ==
    LET found == {i \in 1..Len(E.generations) : E.generations[i].generation = generation}
    IN  IF found = {}
        THEN <<>>
        ELSE <<E.generations[CHOOSE i \in found : \A j \in found : i <= j]>>

\* ElephantMemory.export_wisdom: get_stats(), the archive and to_dict() of
\* every memory held, page by page, as JSON; of get_stats() the counters, the
\* generation number, the loop count and the average strength are kept
export_wisdom(E) ==
    <<[stats |-> E.stats @@ [current_generation |-> E.current_generation,
                             loop_count |-> E.loop_count,
                             avg_strength |-> _calculate_avg_strength(E)],
       generations |-> E.generations,
       memories |-> [i \in 1..Len(Held(E)) |-> E.heap[Held(E)[i]]]]>>

\* the loop of import_wisdom: Memory(**memory_dict) appended to the page it
\* names, entered in genome_index and, for each of its tags, in tag_index
RECURSIVE ImportMemories(_, _, _)
ImportMemories(E, memories, i) ==
    IF i > Len(memories) THEN E
    ELSE LET memory == memories[i]
             oid == Len(E.heap) + 1
         IN  ImportMemories(
                 [E EXCEPT !.heap = Append(@, memory),
                           !.pages[memory.page] = Append(@, oid),
                           !.genome_index = [g \in (DOMAIN @) \cup {memory.genome} |->
                                                IF g = memory.genome THEN oid ELSE @[g]],
                           !.tag_index = TagIndexAdd(@, memory.tags, 1, memory.genome)],
                 memories, i + 1)

\* ElephantMemory.import_wisdom: the archive is replaced by the file's, the
\* memories are added; stats, current_generation and loop_count are not read
import_wisdom(E, file) ==
    ImportMemories([E EXCEPT !.generations = file[1].generations], file[1].memories, 1)

\* recall: "if genome", "if tags", "if phase" read None as they read an empty
\* value, so an argument not given is the empty hash, the empty list and the
\* empty string
NoGenome == <<>>
NoPhase == ""

\* the two "continue" tests of recall's scan
RecallKeeps(m, tags, phase) ==
    /\ tags # <<>> => \E t \in 1..Len(tags) : tags[t] \in SeqToSet(m.tags)
    /\ phase # NoPhase => m.phase = phase

\* the scan over pages.values(): both loops break once limit results are held
RECURSIVE RecallScan(_, _, _, _, _, _, _)
RecallScan(heap, held, i, tags, phase, limit, results) ==
    IF i > Len(held) THEN results
    ELSE IF ~RecallKeeps(heap[held[i]], tags, phase)
    THEN RecallScan(heap, held, i + 1, tags, phase, limit, results)
    ELSE IF Len(results) + 1 >= limit THEN Append(results, held[i])
    ELSE RecallScan(heap, held, i + 1, tags, phase, limit, Append(results, held[i]))

\* the sort key (m.strength, m.echo_count), compared as tuples
RankAbove(a, b) ==
    \/ a.strength > b.strength
    \/ a.strength = b.strength /\ a.echo_count > b.echo_count

\* results.sort(key=..., reverse=True) is stable: a memory goes after the
\* memories that do not rank below it
RECURSIVE InsertByRankUnstable(_, _, _)
InsertByRankUnstable(heap, s, oid) ==
    IF s = <<>> THEN <<oid>>
    ELSE IF RankAbove(heap[s[1]], heap[oid])
    THEN <<s[1]>> \o InsertByRankUnstable(heap, Tail(s), oid)
    ELSE <<oid>> \o s

RECURSIVE InsertByRank(_, _, _)
InsertByRank(heap, s, oid) ==
    IF s = <<>> THEN <<oid>>
    ELSE IF ~RankAbove(heap[oid], heap[s[1]])
    THEN <<s[1]>> \o InsertByRank(heap, Tail(s), oid)
    ELSE <<oid>> \o s

RECURSIVE SortByRank(_, _, _)
SortByRank(heap, results, i) ==
    IF i = 0 THEN <<>>
    ELSE InsertByRank(heap, SortByRank(heap, results, i - 1), results[i])

\* s[:n]: a negative n counts from the end
SliceTo(s, n) ==
    IF n >= 0 THEN SubSeq(s, 1, Min(n, Len(s)))
    ELSE SubSeq(s, 1, Len(s) + n)

\* recall whose lookup by hash keeps the memory only when the tags and the
\* phase asked for fit it
recall_genome_filtered(E, genome, tags, phase, limit) ==
    IF genome # NoGenome
    THEN (IF /\ genome \in DOMAIN E.genome_index
             /\ RecallKeeps(E.heap[E.genome_index[genome]], tags, phase)
          THEN <<E.genome_index[genome]>> ELSE <<>>)
    ELSE LET results == RecallScan(E.heap, Held(E), 1, tags, phase, limit, <<>>)
         IN  SliceTo(SortByRank(E.heap, results, Len(results)), limit)

\* ElephantMemory.recall: the memories returned, as their places in the heap
recall(E, genome, tags, phase, limit) ==
    IF genome # NoGenome
    THEN (IF genome \in DOMAIN E.genome_index THEN <<E.genome_index[genome]>> ELSE <<>>)
    ELSE LET results == RecallScan(E.heap, Held(E), 1, tags, phase, limit, <<>>)
         IN  SliceTo(SortByRank(E.heap, results, Len(results)), limit)

\* ------------------------------------------------------------------ inputs
\* records stored directly in the hypercube
Records ==
    { <<<<"sector", StrVal("ai")>>, <<"value", IntVal(1000)>>, <<"quality_score", IntVal(1)>>>>,
      <<<<"brand", StrVal("acme")>>, <<"value", IntVal(2000)>>>>,
      <<<<"value", IntVal(500)>>, <<"brand", StrVal("acme")>>>>,
      <<<<"sector", Null>>, <<"quality_score", IntVal(2)>>, <<"note", StrVal("abc")>>>>,
      <<<<"year", IntVal(1)>>, <<"quality_score", IntVal(3)>>>>,
      <<<<"year", StrVal("1")>>, <<"value", IntVal(-500)>>>>,
      <<<<"brand", StrVal("acme")>>, <<"value", StrVal("abc")>>>> }

ListVal(s) == <<"list", s>>

\* one-filter queries: equality by default, the range operators, member-of
EqualityFilters ==
    { <<"sector", StrVal("ai")>>, <<"sector", Null>>, <<"brand", StrVal("acme")>>,
      <<"year", IntVal(1)>>, <<"year", StrVal("1")>>, <<"quality_score", IntVal(2)>>,
      <<"note", StrVal("abc")>> }

RangeFilters ==
    { <<"quality_score", IntVal(2)>>, <<"quality_score", IntVal(3)>>, <<"year", IntVal(1)>> }

QueryInputs ==
    {<<<<f>>, <<>>>> : f \in EqualityFilters}
    \cup {<<<<f>>, <<<<f[1], op>>>>>> : f \in RangeFilters, op \in RangeOps}
    \cup {<<<<<<"year", ListVal(<<IntVal(1), IntVal(2)>>)>>>>, <<<<"year", "in">>>>>>}

\* records for queries of several filters: up to three dimensions, a year
\* written as a number and as a string, a null, and a record outside the schema
QueryRecords ==
    { <<<<"sector", StrVal("ai")>>, <<"year", IntVal(1)>>, <<"quality_score", IntVal(3)>>>>,
      <<<<"sector", StrVal("ai")>>, <<"brand", StrVal("acme")>>, <<"quality_score", IntVal(1)>>>>,
      <<<<"brand", StrVal("acme")>>, <<"year", StrVal("1")>>>>,
      <<<<"sector", Null>>, <<"quality_score", IntVal(2)>>, <<"note", StrVal("abc")>>>>,
      <<<<"value", IntVal(1000)>>>> }

\* filter sets over schema dimensions only, each with its operators: none,
\* one, two and three filters
SchemaQueries ==
    { <<<<>>, <<>>>>,
      <<<<<<"brand", StrVal("acme")>>>>, <<>>>>,
      <<<<<<"sector", StrVal("ai")>>, <<"quality_score", IntVal(1)>>>>, <<>>>>,
      <<<<<<"brand", StrVal("acme")>>, <<"year", IntVal(1)>>>>, <<>>>>,
      <<<<<<"sector", StrVal("bio")>>, <<"brand", StrVal("acme")>>>>, <<>>>>,
      <<<<<<"year", IntVal(1)>>, <<"quality_score", IntVal(2)>>>>,
        <<<<"quality_score", ">=">>>>>>,
      <<<<<<"quality_score", IntVal(3)>>, <<"year", IntVal(1)>>>>,
        <<<<"quality_score", "<=">>, <<"year", ">=">>>>>>,
      <<<<<<"sector", StrVal("ai")>>, <<"year", IntVal(1)>>, <<"quality_score", IntVal(2)>>>>,
        <<<<"quality_score", ">">>>>>> }

\* the same with a filter on a name outside the schema put first, or put
\* last together with an operator for it
MultiQueryInputs ==
    SchemaQueries
    \cup {<<<<<<"note", StrVal("abc")>>>> \o q[1], q[2]>> : q \in SchemaQueries}
    \cup {<<q[1] \o <<<<"value", IntVal(1000)>>>>, q[2] \o <<<<"value", ">">>>>>> :
             q \in SchemaQueries}

\* contents and tags given to the engine
Contents ==
    { <<<<"sector", StrVal("ai")>>, <<"value", IntVal(1000)>>>>,
      <<<<"sector", StrVal("ai")>>, <<"value", StrVal("abc")>>>> }

TagChoices == {<<>>, <<"t2", "t1">>}

\* contents given to store and to ingest alike: one mapping written in two
\* key orders, and a second mapping
GenomeContents ==
    { <<<<"sector", StrVal("ai")>>, <<"value", IntVal(1000)>>>>,
      <<<<"value", IntVal(1000)>>, <<"sector", StrVal("ai")>>>>,
      <<<<"sector", StrVal("ai")>>, <<"value", IntVal(500)>>>> }

\* what recall is asked: no tag or two tags (one that no memory has), no
\* phase or a phase, and a limit below, at and above the number of memories
RecallTags == {<<>>, <<"zz", "t1">>}
RecallPhases == {NoPhase, "TRUNK_SORT"}
RecallLimits == {1, 2, 100}

\* the tags of the i-th memory to recall: t1, or t2 for every second one
RecallTagsOf(i) == IF i % 2 = 0 THEN <<"t2">> ELSE <<"t1">>

\* the tags of the i-th content of a bulk load: t1, then t2, then both with
\* t2 first, and so on
BulkTagsOf(i) ==
    CASE i % 3 = 1 -> <<"t1">>
      [] i % 3 = 2 -> <<"t2">>
      [] OTHER     -> <<"t2", "t1">>

\* the i-th content of a bulk load
BulkContent(i) == <<<<"event", IntVal(i)>>>>

\* ------------------------------------------------------------------ actions
Idle == pc = "idle"

Outcome(op, args, r) == [op |-> op, args |-> args, raised |-> r.raised, result |-> r.result]

Store(d) ==
    /\ Idle
    /\ Len(store40d.data) < MaxData
    /\ LET r == store(store40d, d)
       IN  /\ store40d' = r.state
           /\ ret' = Outcome("store", <<d>>, r)
    /\ UNCHANGED <<elephant, pc, cycle_stats, cycle_entry, frame, files, api>>

Query(f, o) ==
    /\ Idle
    /\ store40d.stats.total_queries < MaxQueries
    /\ LET r == query(store40d, f, o)
       IN  /\ store40d' = r.state
           /\ ret' = Outcome("query", <<f, o>>, r)
    /\ UNCHANGED <<elephant, pc, cycle_stats, cycle_entry, frame, files, api>>

\* the duplicate ingests a memory has had: echo_amplify adds one echo too
Duplicates(m) == m.echo_count - (IF m.phase = "ECHO_AMPLIFY" THEN 1 ELSE 0)

\* at most MaxEcho duplicate ingests per content
Ingest(content, tags) ==
    /\ Idle
    /\ LET genome == _compute_genome(content)
       IN  genome \in DOMAIN elephant.genome_index
              => Duplicates(elephant.heap[elephant.genome_index[genome]]) < MaxEcho
    /\ LET r == ingest(elephant, store40d, content, tags)
       IN  /\ elephant' = r.elephant
           /\ store40d' = r.store40d
           /\ ret' = Outcome("ingest", <<content, tags>>, r)
    /\ UNCHANGED <<pc, cycle_stats, cycle_entry, frame, files, api>>

\* one advance step called on its own
Advance(op, r) ==
    /\ Idle
    /\ elephant' = r.elephant
    /\ ret' = [op |-> op, args |-> <<>>, raised |-> FALSE, result |-> r.count]
    /\ UNCHANGED <<store40d, pc, cycle_stats, cycle_entry, frame, files, api>>

TrunkSort == Advance("trunk_sort", trunk_sort(elephant))
HerdConsensus == Advance("herd_consensus", herd_consensus(elephant))
MemoryEncode == Advance("memory_encode", memory_encode(elephant))
GenerationalPass == Advance("generational_pass", generational_pass(elephant))
EchoAmplify == Advance("echo_amplify", echo_amplify(elephant))

\* ElephantMemory.breath_cycle: the five calls that fill cycle_stats, in the
\* order the dict display evaluates them, then loop_count += 1
CycleTrunkSort ==
    /\ Idle
    /\ elephant.loop_count < MaxLoops
    /\ LET r == trunk_sort(elephant)
       IN  /\ elephant' = r.elephant
           /\ cycle_stats' = <<<<"trunk_sorted", r.count>>>>
    /\ cycle_entry' = elephant
    /\ pc' = "herd_consensus"
    /\ UNCHANGED <<store40d, ret, frame, files, api>>

CycleStep(at, key, r, next) ==
    /\ pc = at
    /\ elephant' = r.elephant
    /\ cycle_stats' = Append(cycle_stats, <<key, r.count>>)
    /\ pc' = next
    /\ UNCHANGED <<store40d, cycle_entry, ret, frame, files, api>>

CycleHerdConsensus ==
    CycleStep("herd_consensus", "herd_validated", herd_consensus(elephant), "memory_encode")
CycleMemoryEncodeSkipped ==
    CycleStep("memory_encode", "encoded", generational_pass(elephant), "generational_pass")
CycleMemoryEncode ==
    CycleStep("memory_encode", "encoded", memory_encode(elephant), "generational_pass")
CycleGenerationalPass ==
    CycleStep("generational_pass", "generational_passed", generational_pass(elephant),
              "echo_amplify")

CycleEchoAmplify ==
    /\ pc = "echo_amplify"
    /\ LET r == echo_amplify(elephant)
       IN  /\ elephant' = [r.elephant EXCEPT !.loop_count = @ + 1]
           /\ cycle_stats' = <<>>
           /\ ret' = [op |-> "breath_cycle", args |-> <<>>, raised |-> FALSE,
                      result |-> Append(cycle_stats, <<"echo_amplified", r.count>>)]
    /\ cycle_entry' = <<>>
    /\ pc' = "idle"
    /\ UNCHANGED <<store40d, frame, files, api>>

\* recall(tags=tags, phase=phase, limit=limit): reads, changes nothing
Recall(tags, phase, limit) ==
    /\ Idle
    /\ ret' = [op |-> "recall", args |-> <<NoGenome, tags, phase, limit>>,
               raised |-> FALSE,
               result |-> recall(elephant, NoGenome, tags, phase, limit)]
    /\ UNCHANGED <<store40d, elephant, pc, cycle_stats, cycle_entry, frame, files, api>>

\* recall(genome=hash of content, tags=tags, phase=phase), limit left at 100
RecallGenome(content, tags, phase) ==
    /\ Idle
    /\ ret' = [op |-> "recall", args |-> <<_compute_genome(content), tags, phase, 100>>,
               raised |-> FALSE,
               result |-> recall(elephant, _compute_genome(content), tags, phase, 100)]
    /\ UNCHANGED <<store40d, elephant, pc, cycle_stats, cycle_entry, frame, files, api>>

\* get_generational_wisdom(generation=generation): reads, changes nothing
GetGenerationalWisdom(generation) ==
    /\ Idle
    /\ ret' = [op |-> "get_generational_wisdom", args |-> <<generation>>,
               raised |-> FALSE,
               result |-> get_generational_wisdom(elephant, generation)]
    /\ UNCHANGED <<store40d, elephant, pc, cycle_stats, cycle_entry, frame, files, api>>

\* export_wisdom(filepath) on the one path the model has
ExportWisdom ==
    /\ Idle
    /\ files' = [files EXCEPT !.wisdom = export_wisdom(elephant)]
    /\ ret' = [op |-> "export_wisdom", args |-> <<>>, raised |-> FALSE, result |-> <<>>]
    /\ UNCHANGED <<store40d, elephant, pc, cycle_stats, cycle_entry, frame, api>>

\* elephant2 = ElephantMemory(); elephant2.import_wisdom(filepath): from here
\* on the engine of the model is the importing one
ImportWisdom ==
    /\ Idle
    /\ files.wisdom # NoFile
    /\ elephant.stats.total_memories > 0
    /\ elephant' = import_wisdom(ElephantInit(FALSE), files.wisdom)
    /\ ret' = [op |-> "import_wisdom", args |-> <<>>, raised |-> FALSE, result |-> <<>>]
    /\ UNCHANGED <<store40d, pc, cycle_stats, cycle_entry, frame, files, api>>

\* ------------------------------------------------------------------ threads
\* Neither class takes a lock, and run_api() of main.py hands the store and
\* the engine of the orchestrator's thread to the thread that runs the API
\* without one. Where two threads do call one instance, a call of one runs
\* between any two statements of the other.
\* trunk_sort() and store() are followed statement by statement here; the
\* calls of a reading thread (ReadStats, ReadRecall, ReadQuery) run whole at
\* any point.

\* trunk_sort() is entered
TsEnter ==
    /\ Idle
    /\ pc' = "ts_scan"
    /\ frame' = [intake_page |-> 1, i |-> 1, memories_to_move |-> <<>>, moved_count |-> 0]
    /\ UNCHANGED <<store40d, elephant, cycle_stats, cycle_entry, ret, files, api>>

\* for memory in self.pages[intake_page]: the tests and memory.phase = "TRUNK_SORT"
TsScan ==
    /\ pc = "ts_scan"
    /\ LET page == elephant.pages[frame.intake_page]
       IN  IF frame.i > Len(page)
           THEN pc' = "ts_move" /\ UNCHANGED <<elephant, frame>>
           ELSE LET oid == page[frame.i]
                    m   == elephant.heap[oid]
                IN  IF m.phase = "INTAKE" /\ TrunkSortSelect(m)
                    THEN /\ elephant' = [elephant EXCEPT
                                            !.heap[oid].phase = TrunkSortPromote(m).phase]
                         /\ pc' = "ts_page"
                         /\ UNCHANGED frame
                    ELSE /\ frame' = [frame EXCEPT !.i = @ + 1]
                         /\ UNCHANGED <<elephant, pc>>
    /\ UNCHANGED <<store40d, cycle_stats, cycle_entry, ret, files, api>>

\* memory.page = 9; memories_to_move.append(memory); moved_count += 1
TsPage ==
    /\ pc = "ts_page"
    /\ LET oid == elephant.pages[frame.intake_page][frame.i]
       IN  /\ elephant' = [elephant EXCEPT
                              !.heap[oid].page = TrunkSortPromote(elephant.heap[oid]).page]
           /\ frame' = [frame EXCEPT !.i = @ + 1,
                                     !.memories_to_move = Append(@, oid),
                                     !.moved_count = @ + 1]
    /\ pc' = "ts_scan"
    /\ UNCHANGED <<store40d, cycle_stats, cycle_entry, ret, files, api>>

\* for memory in memories_to_move: self.pages[intake_page].remove(memory)
TsRemove ==
    /\ pc = "ts_move"
    /\ frame.memories_to_move # <<>>
    /\ elephant' = [elephant EXCEPT !.pages[frame.intake_page] =
                        RemoveFirstEqual(@, elephant.heap, frame.memories_to_move[1])]
    /\ pc' = "ts_append"
    /\ UNCHANGED <<store40d, cycle_stats, cycle_entry, ret, frame, files, api>>

\* self.pages[9].append(memory)
TsAppend ==
    /\ pc = "ts_append"
    /\ elephant' = [elephant EXCEPT !.pages[TargetPage("trunk_sort")] =
                        Append(@, frame.memories_to_move[1])]
    /\ frame' = [frame EXCEPT !.memories_to_move = Tail(@)]
    /\ pc' = "ts_move"
    /\ UNCHANGED <<store40d, cycle_stats, cycle_entry, ret, files, api>>

\* the next intake_page
TsNextPage ==
    /\ pc = "ts_move"
    /\ frame.memories_to_move = <<>>
    /\ frame.intake_page < 8
    /\ frame' = [frame EXCEPT !.intake_page = @ + 1, !.i = 1]
    /\ pc' = "ts_scan"
    /\ UNCHANGED <<store40d, elephant, cycle_stats, cycle_entry, ret, files, api>>

\* if moved_count > 0: phase_transitions += moved_count; return moved_count
TsReturn ==
    /\ pc = "ts_move"
    /\ frame.memories_to_move = <<>>
    /\ frame.intake_page = 8
    /\ elephant' = IF frame.moved_count > 0
                   THEN [elephant EXCEPT !.stats.phase_transitions = @ + frame.moved_count]
                   ELSE elephant
    /\ ret' = [op |-> "trunk_sort", args |-> <<>>, raised |-> FALSE,
               result |-> frame.moved_count]
    /\ pc' = "idle"
    /\ frame' = <<>>
    /\ UNCHANGED <<store40d, cycle_stats, cycle_entry, files, api>>

\* store(data) is entered: genome, coords, point, self.data.append(point)
StEnter(d) ==
    /\ Idle
    /\ Len(store40d.data) < MaxData
    /\ LET genome == _compute_genome(d)
           coords == _extract_coordinates(d)
           point  == [genome |-> genome, data |-> d, coordinates |-> coords]
       IN  /\ store40d' = [store40d EXCEPT !.data = AppendPoint(@, point)]
           /\ frame' = [data |-> d, genome |-> genome, coords |-> coords, i |-> 0]
    /\ pc' = "st_index"
    /\ UNCHANGED <<elephant, cycle_stats, cycle_entry, ret, files, api>>

\* the dimensions from i on whose coordinate is not None
ToIndex(coords, i) == {j \in i..(NumDims - 1) : ~IsNull(coords[j + 1])}

\* for i, value in enumerate(coords): the next self.index[...].append(...)
StIndex ==
    /\ pc = "st_index"
    /\ ToIndex(frame.coords, frame.i) # {}
    /\ LET i == CHOOSE j \in ToIndex(frame.coords, frame.i) :
                    \A k \in ToIndex(frame.coords, frame.i) : j <= k
       IN  /\ store40d' = [store40d EXCEPT !.index =
                              IndexAppend(@, IndexKey(i, frame.coords[i + 1]),
                                          Len(store40d.data) - 1)]
           /\ frame' = [frame EXCEPT !.i = i + 1]
    /\ UNCHANGED <<elephant, pc, cycle_stats, cycle_entry, ret, files, api>>

\* the CARE-15 lines, total_stored += 1, return genome
StReturn ==
    /\ pc = "st_index"
    /\ ToIndex(frame.coords, frame.i) = {}
    /\ IF ~HasKey(frame.data, "value")
       THEN /\ store40d' = [store40d EXCEPT !.stats.total_stored = @ + 1]
            /\ ret' = [op |-> "store", args |-> <<frame.data>>, raised |-> FALSE,
                       result |-> frame.genome]
       ELSE IF ~CareMultiplies(frame.data)
       THEN /\ ret' = [op |-> "store", args |-> <<frame.data>>, raised |-> TRUE,
                       result |-> "TypeError"]
            /\ UNCHANGED store40d
       ELSE /\ store40d' = [store40d EXCEPT
                               !.care_pool = @ + CareAmount(frame.data),
                               !.stats.care_redistributed = @ + CareAmount(frame.data),
                               !.stats.total_stored = @ + 1]
            /\ ret' = [op |-> "store", args |-> <<frame.data>>, raised |-> FALSE,
                       result |-> frame.genome]
    /\ pc' = "idle"
    /\ frame' = <<>>
    /\ UNCHANGED <<elephant, cycle_stats, cycle_entry, files, api>>

\* get_stats() called by a reading thread, as GET /api/v1/elephant/stats
\* does: of its result the phase histogram and the memory count are kept
ReadStats ==
    /\ ret' = [op |-> "get_stats", args |-> <<>>, raised |-> FALSE,
               result |-> [memories_by_phase |-> _count_by_phase(elephant),
                           total_memories |-> elephant.stats.total_memories]]
    /\ UNCHANGED <<store40d, elephant, pc, cycle_stats, cycle_entry, frame, files, api>>

\* recall(phase=phase) called by a reading thread, each memory copied as
\* to_dict() does
ReadRecall(phase) ==
    /\ LET recalled == recall(elephant, NoGenome, <<>>, phase, 100)
       IN  ret' = [op |-> "recall", args |-> <<NoGenome, <<>>, phase, 100>>,
                   raised |-> FALSE,
                   result |-> [j \in 1..Len(recalled) |-> elephant.heap[recalled[j]]]]
    /\ UNCHANGED <<store40d, elephant, pc, cycle_stats, cycle_entry, frame, files, api>>

\* query() called by a reading thread
ReadQuery(f, o) ==
    /\ store40d.stats.total_queries < MaxQueries
    /\ LET r == query(store40d, f, o)
       IN  /\ store40d' = r.state
           /\ ret' = Outcome("query", <<f, o>>, r)
    /\ UNCHANGED <<elephant, pc, cycle_stats, cycle_entry, frame, files, api>>

\* export_json(filepath) on the one path the model has
ExportJson ==
    /\ Idle
    /\ files' = [files EXCEPT !.hypercube = export_json(store40d)]
    /\ ret' = [op |-> "export_json", args |-> <<>>, raised |-> FALSE, result |-> <<>>]
    /\ UNCHANGED <<store40d, elephant, pc, cycle_stats, cycle_entry, frame, api>>

\* import_json(filepath); at most MaxImports times
ImportJson ==
    /\ Idle
    /\ store40d.stats.total_stored < MaxData * MaxImports
    /\ LET r == import_json(store40d, files.hypercube)
       IN  /\ store40d' = r.state
           /\ ret' = Outcome("import_json", <<files.hypercube>>, r)
    /\ UNCHANGED <<elephant, pc, cycle_stats, cycle_entry, frame, files, api>>

\* ------------------------------------------------------------------ API server
\* api_server.py runs its handlers and its breath task as coroutines of one
\* event loop: a coroutine runs alone from one await that suspends it to the
\* next, and every action below is one such stretch.

\* the instances the fields of api_state reference
ApiStore == IF api_state.store40d = "vault" THEN store40d ELSE instances.store40d
ApiElephant == IF api_state.elephant = "vault" THEN elephant ELSE instances.elephant

\* ElephantMemory.breath_cycle() as one call: the five steps in the order of
\* the dict display, then loop_count += 1
breath_cycle(E) ==
    LET a == trunk_sort(E)
        b == herd_consensus(a.elephant)
        c == memory_encode(b.elephant)
        d == generational_pass(c.elephant)
        e == echo_amplify(d.elephant)
    IN  [e.elephant EXCEPT !.loop_count = @ + 1]

\* list.remove(x): the first element equal to x leaves the list
RECURSIVE ListRemove(_, _)
ListRemove(list, x) ==
    IF list = <<>> THEN <<>>
    ELSE IF list[1] = x THEN Tail(list)
    ELSE <<list[1]>> \o ListRemove(Tail(list), x)

\* the second loop of broadcast_breath_update: the clients of `disconnected`
\* leave the list one by one, and removing one that is not in it raises
\* ValueError with the earlier ones already gone
RECURSIVE RemoveDisconnected(_, _)
RemoveDisconnected(list, disconnected) ==
    IF disconnected = <<>> THEN [raised |-> FALSE, list |-> list]
    ELSE IF disconnected[1] \notin SeqToSet(list) THEN [raised |-> TRUE, list |-> list]
    ELSE RemoveDisconnected(ListRemove(list, disconnected[1]), Tail(disconnected))

\* the breath task before its first step
LoopCreated ==
    [pc |-> "created", phase |-> "PULSE", i |-> 0, client |-> 0,
     disconnected |-> <<>>, calls |-> 0, last |-> -1, cancel |-> FALSE]

\* The breath task from a point of breath_cycle_loop up to the next await
\* that suspends it. M holds what it works on: a (api_state) and l, its own
\* position:
\*   pc            "created", "sending" (in client.send_json of a broadcast),
\*                 "sleep" (in the asyncio.sleep that follows the broadcast of
\*                 l.phase), "error_sleep" (line 270) or "done"
\*   i, client     the list iterator of the broadcast and the client sent to
\*   disconnected  the local list of broadcast_breath_update
\*   calls, last   the breath_cycle() calls (line 244) of this iteration and
\*                 of the one before (-1: none before)
\*   cancel        breath_task.cancel() was called and is not yet delivered
\* late says that time.time() - cycle_start has reached 9 at line 263.
RECURSIVE LoopBroadcast(_, _, _), LoopIterate(_, _), LoopAfter(_, _)

\* line 207: the next iteration; beyond MaxBreaths the counter is held
LoopTop(M, late) ==
    LoopBroadcast([M EXCEPT !.a.breath_count = Min(@ + 1, MaxBreaths),
                            !.l.last = IF M.l.pc = "created" THEN -1 ELSE M.l.calls,
                            !.l.calls = 0],
                  "PULSE", late)

\* await broadcast_breath_update({"phase": phase, ...})
LoopBroadcast(M, phase, late) ==
    LoopIterate([M EXCEPT !.l.phase = phase, !.l.i = 0, !.l.disconnected = <<>>], late)

\* lines 277-285 from the i-th element of the list on; ValueError leaves the
\* try block of the loop for line 268
LoopIterate(M, late) ==
    IF M.l.i < Len(M.a.websocket_clients)
    THEN [M EXCEPT !.l.pc = "sending",
                   !.l.client = M.a.websocket_clients[M.l.i + 1],
                   !.l.i = @ + 1]
    ELSE LET r == RemoveDisconnected(M.a.websocket_clients, M.l.disconnected)
             N == [M EXCEPT !.a.websocket_clients = r.list, !.l.disconnected = <<>>]
         IN  IF r.raised THEN [N EXCEPT !.l.pc = "error_sleep"]
             ELSE LoopAfter(N, late)

\* what follows the broadcast of M.l.phase: after FLOW the call of line 244,
\* which LoopStretch applies to the engine
LoopAfter(M, late) ==
    IF M.l.phase = "FLOW" /\ M.a.elephant # "None"
    THEN LoopBroadcast([M EXCEPT !.l.calls = @ + 1], "FLOW_COMPLETE", late)
    ELSE IF M.l.phase = "RESET" /\ late
    THEN LoopTop(M, late)
    ELSE [M EXCEPT !.l.pc = "sleep"]

\* line 253 after the sleep of line 251, line 207 after that of line 264
LoopWake(M, late) ==
    CASE M.l.phase = "PULSE" -> LoopBroadcast(M, "GLOW", late)
      [] M.l.phase = "GLOW" -> LoopBroadcast(M, "TRADE", late)
      [] M.l.phase = "TRADE" -> LoopBroadcast(M, "FLOW", late)
      [] M.l.phase \in {"FLOW", "FLOW_COMPLETE"} -> LoopBroadcast(M, "RESET", late)
      [] M.l.phase = "RESET" -> LoopTop(M, late)

\* except: of line 280, then the for loop goes on
LoopSendFailed(M, late) ==
    LoopIterate([M EXCEPT !.l.disconnected = Append(@, M.l.client)], late)

\* One stretch of the breath task as api_state and the task itself show it.
\* What its await raises or returns: CancelledError once cancel() was called
\* (the bare except of line 280 takes it like any failed send, line 266 ends
\* the task, and from line 270 it leaves the coroutine); a send to a peer
\* that is there returns, one to a peer that has gone returns or raises as
\* the server below decides; a sleep returns.
LoopStretch ==
    /\ tasks.server \in {"serving", "awaiting"}
    /\ tasks.loop.pc # "done"
    /\ \E late \in BOOLEAN, sent \in BOOLEAN :
         LET l == tasks.loop
             M == [a |-> api_state, l |-> l]
             N == IF l.cancel
                  THEN IF l.pc = "sending"
                       THEN LoopSendFailed([M EXCEPT !.l.cancel = FALSE], late)
                       ELSE [M EXCEPT !.l.pc = "done", !.l.cancel = FALSE]
                  ELSE IF l.pc = "sending"
                  THEN IF sent THEN LoopIterate(M, late) ELSE LoopSendFailed(M, late)
                  ELSE IF l.pc = "sleep" THEN LoopWake(M, late)
                  ELSE LoopTop(M, late)
         IN  /\ (l.pc = "sending" /\ ~l.cancel /\ tasks.peer[l.client] = "up") => sent
             /\ api_state' = N.a
             /\ tasks' = [tasks EXCEPT !.loop = N.l]

\* breath_cycle_loop(): one stretch of the breath task, and the engine after
\* it: breath_cycle() has run on it if the stretch went through line 244
\* (beyond MaxBreaths cycles the engine is held as it is)
breath_cycle_loop ==
    /\ LoopStretch
    /\ LET E == IF /\ tasks'.loop.calls = tasks.loop.calls + 1
                   /\ ApiElephant.loop_count < MaxBreaths
                THEN breath_cycle(ApiElephant) ELSE ApiElephant
       IN  IF api_state.elephant = "vault"
           THEN elephant' = E /\ UNCHANGED instances
           ELSE instances' = [instances EXCEPT !.elephant = E] /\ UNCHANGED elephant
    /\ UNCHANGED <<store40d, pc, cycle_stats, cycle_entry, ret, frame, files>>

\* websocket_realtime(websocket) for the client c: accept and append (lines
\* 507-508); the peer goes away while the handler sits in an await of its try
\* block; that await raises WebSocketDisconnect (lines 551-552) or another
\* exception (lines 553-556). "raised": ValueError left the handler.
websocket_realtime(c) ==
    /\ tasks.server = "serving"
    /\ LET list == api_state.websocket_clients
       IN  \/ /\ tasks.ws[c] = "none"
              /\ api_state' = [api_state EXCEPT !.websocket_clients = Append(@, c)]
              /\ tasks' = [tasks EXCEPT !.ws[c] = "open", !.peer[c] = "up"]
           \/ /\ tasks.ws[c] = "open" /\ tasks.peer[c] = "up"
              /\ tasks' = [tasks EXCEPT !.peer[c] = "down"]
              /\ UNCHANGED api_state
           \/ /\ tasks.ws[c] = "open" /\ tasks.peer[c] = "down"
              /\ IF c \in SeqToSet(list)
                 THEN /\ api_state' = [api_state EXCEPT
                                          !.websocket_clients = ListRemove(@, c)]
                      /\ tasks' = [tasks EXCEPT !.ws[c] = "returned"]
                 ELSE /\ tasks' = [tasks EXCEPT !.ws[c] = "raised"]
                      /\ UNCHANGED api_state
           \/ /\ tasks.ws[c] = "open" /\ tasks.peer[c] = "down"
              /\ api_state' = [api_state EXCEPT !.websocket_clients =
                                  IF c \in SeqToSet(@) THEN ListRemove(@, c) ELSE @]
              /\ tasks' = [tasks EXCEPT !.ws[c] = "returned"]
    /\ UNCHANGED <<store40d, elephant, pc, cycle_stats, cycle_entry, ret, frame, files,
                   instances>>

\* lifespan(app) up to its yield: a new store, a new engine on it, the breath
\* task
LifespanStartup ==
    /\ tasks.server \in {"injected", "standalone"}
    /\ api_state' = [api_state EXCEPT !.store40d = "lifespan", !.elephant = "lifespan",
                                      !.breath_task = "task"]
    /\ instances' = [store40d |-> StoreInit, elephant |-> ElephantInit(TRUE)]
    /\ tasks' = [tasks EXCEPT !.server = "serving", !.loop = LoopCreated]
    /\ UNCHANGED <<store40d, elephant, pc, cycle_stats, cycle_entry, ret, frame, files>>

\* lifespan(app) after its yield: cancel() and await the breath task, and
\* once the task is done close the clients of the list
LifespanShutdown ==
    /\ tasks.main = "uvicorn"
    /\ \/ /\ tasks.server = "serving"
          /\ tasks' = [tasks EXCEPT !.server = "awaiting", !.loop.cancel = TRUE]
       \/ /\ tasks.server = "awaiting"
          /\ tasks.loop.pc = "done"
          /\ tasks' = [tasks EXCEPT
                !.server = "stopped",
                !.peer = [c \in Clients |->
                            IF c \in SeqToSet(api_state.websocket_clients)
                            THEN "down" ELSE @[c]]]
    /\ UNCHANGED <<store40d, elephant, pc, cycle_stats, cycle_entry, ret, frame, files,
                   api_state, instances>>

\* python api_server.py: uvicorn.run() in the main thread, where uvicorn
\* turns SIGINT and SIGTERM into the shutdown of lifespan
api_server_main ==
    /\ tasks.main = "run"
    /\ tasks.server = "off"
    /\ tasks' = [tasks EXCEPT !.main = "uvicorn", !.server = "standalone"]
    /\ UNCHANGED <<store40d, elephant, pc, cycle_stats, cycle_entry, ret, frame, files,
                   api_state, instances>>

\* VaultNexusEternal.start_api_server(): run_api() in its thread assigns the
\* orchestrator's store and engine to api_state and calls uvicorn.run(); the
\* main thread goes on to eternal_loop()
start_api_server ==
    /\ tasks.main = "run"
    /\ tasks.server = "off"
    /\ api_state' = [api_state EXCEPT !.store40d = "vault", !.elephant = "vault"]
    /\ tasks' = [tasks EXCEPT !.main = "loop", !.server = "injected"]
    /\ UNCHANGED <<store40d, elephant, pc, cycle_stats, cycle_entry, ret, frame, files,
                   instances>>

\* POST /api/v1/store: store() on the store api_state references; what it
\* raises becomes a 500 response
store_data(d) ==
    /\ tasks.server = "serving"
    /\ api_state.store40d # "None"
    /\ Len(ApiStore.data) < MaxData
    /\ LET r == store(ApiStore, d)
       IN  /\ IF api_state.store40d = "vault"
              THEN store40d' = r.state /\ UNCHANGED instances
              ELSE instances' = [instances EXCEPT !.store40d = r.state]
                   /\ UNCHANGED store40d
           /\ ret' = Outcome("store_data", <<d>>, r)
    /\ UNCHANGED <<elephant, pc, cycle_stats, cycle_entry, frame, files, api_state, tasks>>

\* POST /api/v1/echo: ingest() on the engine api_state references, which
\* writes to the store it was constructed on
trigger_echo(content, tags) ==
    /\ tasks.server = "serving"
    /\ api_state.elephant # "None"
    /\ LET genome == _compute_genome(content)
       IN  genome \in DOMAIN ApiElephant.genome_index
              => Duplicates(ApiElephant.heap[ApiElephant.genome_index[genome]]) < MaxEcho
    /\ IF api_state.elephant = "vault"
       THEN LET r == ingest(elephant, store40d, content, tags)
            IN  /\ elephant' = r.elephant
                /\ store40d' = r.store40d
                /\ ret' = Outcome("trigger_echo", <<content, tags>>, r)
                /\ UNCHANGED instances
       ELSE LET r == ingest(instances.elephant, instances.store40d, content, tags)
            IN  /\ instances' = [store40d |-> r.store40d, elephant |-> r.elephant]
                /\ ret' = Outcome("trigger_echo", <<content, tags>>, r)
                /\ UNCHANGED <<store40d, elephant>>
    /\ UNCHANGED <<pc, cycle_stats, cycle_entry, frame, files, api_state, tasks>>

\* VaultNexusEternal.shutdown(): the files after its two exports
shutdown(S, E, F) == [F EXCEPT !.hypercube = export_json(S), !.wisdom = export_wisdom(E)]

\* SIGINT or SIGTERM while eternal_loop() runs: signal_handler() calls
\* sys.exit(0) in the main thread, at whatever statement that thread is.
\* SystemExit is neither the KeyboardInterrupt eternal_loop() catches nor an
\* Exception as main() catches, so it leaves both and the process ends, its
\* daemon thread with it.
signal_handler ==
    /\ tasks.main = "loop"
    /\ tasks' = [tasks EXCEPT !.main = "exited", !.server = "killed"]
    /\ UNCHANGED <<store40d, elephant, pc, cycle_stats, cycle_entry, ret, frame, files,
                   api_state, instances>>

\* ------------------------------------------------------------------ specifications
NoCall == [op |-> "none", args |-> <<>>, raised |-> FALSE, result |-> <<>>]

InitWith(configured) ==
    /\ store40d = StoreInit
    /\ elephant = ElephantInit(configured)
    /\ pc = "idle"
    /\ cycle_stats = <<>>
    /\ cycle_entry = <<>>
    /\ ret = NoCall
    /\ frame = <<>>
    /\ files = [hypercube |-> NoFile, wisdom |-> NoFile]
    /\ api_state = [store40d |-> "None", elephant |-> "None",
                    websocket_clients |-> <<>>, breath_count |-> 0,
                    breath_task |-> "None"]
    /\ instances = [store40d |-> "None", elephant |-> "None"]
    /\ tasks = [main |-> "run", server |-> "off", loop |-> LoopCreated,
                ws |-> [c \in Clients |-> "none"],
                peer |-> [c \in Clients |-> "none"]]

BreathCycle ==
    \/ CycleTrunkSort
    \/ CycleHerdConsensus
    \/ CycleMemoryEncode
    \/ CycleGenerationalPass
    \/ CycleEchoAmplify

Steps ==
    \/ TrunkSort
    \/ HerdConsensus
    \/ MemoryEncode
    \/ GenerationalPass
    \/ EchoAmplify
    \/ BreathCycle

\* the engine, with or without a store, fed by ingest
Init == \E configured \in BOOLEAN : InitWith(configured)

Next ==
    \/ \E content \in Contents, tags \in TagChoices : Ingest(content, tags)
    \/ Steps

Spec == Init /\ [][Next]_vars

\* the store on its own
StoreOnlyInit == InitWith(FALSE)

StoreNext ==
    \/ \E d \in Records : Store(d)
    \/ \E q \in QueryInputs : Query(q[1], q[2])

SpecStore == StoreOnlyInit /\ [][StoreNext]_vars

\* a bulk load driven as the orchestrator drives the engine: MaxBulk contents
\* ingested one after the other, breath_cycle() called anywhere between them,
\* and the archive read for a generation number
BulkInit == InitWith(FALSE)

BulkNext ==
    \/ /\ elephant.stats.total_memories < MaxBulk
       /\ Ingest(BulkContent(elephant.stats.total_memories + 1),
                 BulkTagsOf(elephant.stats.total_memories + 1))
    \/ BreathCycle
    \/ \E generation \in 0..MaxLoops : GetGenerationalWisdom(generation)

SpecBulk == BulkInit /\ [][BulkNext]_vars

\* store and ingest called with the same contents, on an engine with or
\* without a store, trunk_sort in between
GenomeNext ==
    \/ \E d \in GenomeContents : Store(d)
    \/ \E content \in GenomeContents : Ingest(content, <<"t1">>)
    \/ TrunkSort

SpecGenome == Init /\ [][GenomeNext]_vars

\* one thread ingests, stores and sorts; another reads between any two of
\* the statements of trunk_sort() and store()
ConcurrentRecords ==
    { <<<<"sector", StrVal("ai")>>, <<"year", IntVal(1)>>>>,
      <<<<"brand", StrVal("acme")>>, <<"value", IntVal(500)>>>> }

ConcurrentNext ==
    \/ \E content \in Contents : Ingest(content, <<>>)
    \/ TsEnter \/ TsScan \/ TsPage \/ TsRemove \/ TsAppend \/ TsNextPage \/ TsReturn
    \/ \E d \in ConcurrentRecords : StEnter(d)
    \/ StIndex
    \/ StReturn
    \/ ReadStats
    \/ \E phase \in {"INTAKE", "TRUNK_SORT"} : ReadRecall(phase)
    \/ ReadQuery(<<<<"sector", StrVal("ai")>>>>, <<>>)

SpecConcurrent == InitWith(FALSE) /\ [][ConcurrentNext]_vars

\* the store queried with filter sets of any size
QueryNext ==
    \/ \E d \in QueryRecords : Store(d)
    \/ \E q \in MultiQueryInputs : Query(q[1], q[2])

SpecQuery == StoreOnlyInit /\ [][QueryNext]_vars

\* an engine with a store, and the store queried for what the engine sent it:
\* by the lifecycle key "elephant_phase" and by a key of the content
EnrichQueries ==
    { <<<<"elephant_phase", StrVal("INTAKE")>>>>, <<<<"sector", StrVal("ai")>>>> }

EnrichNext ==
    \/ \E content \in Contents, tags \in TagChoices : Ingest(content, tags)
    \/ TrunkSort
    \/ \E f \in EnrichQueries : Query(f, <<>>)

SpecEnrich == InitWith(TRUE) /\ [][EnrichNext]_vars

\* a bulk load with breath cycles, exported and imported into a fresh engine
WisdomNext ==
    \/ /\ elephant.stats.total_memories < MaxBulk
       /\ Ingest(BulkContent(elephant.stats.total_memories + 1),
                 BulkTagsOf(elephant.stats.total_memories + 1))
    \/ BreathCycle
    \/ ExportWisdom
    \/ ImportWisdom

SpecWisdom == InitWith(FALSE) /\ [][WisdomNext]_vars

\* a store that is filled, exported and imported again
ImportRecords ==
    { <<<<"brand", StrVal("acme")>>, <<"value", IntVal(500)>>>>,
      <<<<"brand", StrVal("acme")>>, <<"value", StrVal("abc")>>>> }

ImportNext ==
    \/ \E d \in ImportRecords : Store(d)
    \/ ExportJson
    \/ ImportJson

SpecImport == StoreOnlyInit /\ [][ImportNext]_vars

\* eternal_loop(): breath_cycle() again and again, here the steps of the
\* engine's breath_cycle() it calls
eternal_loop ==
    /\ tasks.main = "loop"
    /\ BreathCycle

\* the orchestrator: its eternal loop on its own store and engine, the API
\* it starts in a thread, requests to that API, and a signal
VaultNext ==
    \/ start_api_server
    \/ LifespanStartup
    \/ \E d \in ImportRecords : store_data(d)
    \/ trigger_echo(BulkContent(1), <<"t1">>)
    \/ eternal_loop
    \/ breath_cycle_loop
    \/ signal_handler

SpecVault == InitWith(TRUE) /\ [][VaultNext]_vars

\* api_server.py run on its own, with websocket clients that come and go
ApiNext ==
    \/ api_server_main
    \/ LifespanStartup
    \/ LifespanShutdown
    \/ breath_cycle_loop
    \/ \E c \in Clients : websocket_realtime(c)

SpecApi == InitWith(FALSE) /\ [][ApiNext]_vars

\* the event loop runs every coroutine that can go on: a timer that is due
\* fires, a send ends, and lifespan resumes once the task it awaits is done.
\* A step of the breath task is a LoopStretch step that changes tasks.loop.
SpecApiFair ==
    /\ SpecApi
    /\ WF_<<api_state, tasks>>(LoopStretch)
    /\ WF_vars(tasks.server = "awaiting" /\ LifespanShutdown)


\* up to MaxRecall memories, ingested one after the other and again, moved
\* from bucket 1 to bucket 9 by trunk_sort, and recalled by filters or by the
\* hash of a content, ingested yet or not
RecallNext ==
    \/ \E i \in 1..Min(elephant.stats.total_memories + 1, MaxRecall) :
          Ingest(BulkContent(i), RecallTagsOf(i))
    \/ TrunkSort
    \/ \E tags \in RecallTags, phase \in RecallPhases, limit \in RecallLimits :
          Recall(tags, phase, limit)
    \/ \E i \in 1..MaxRecall, tags \in RecallTags, phase \in RecallPhases :
          RecallGenome(BulkContent(i), tags, phase)

SpecRecall == InitWith(FALSE) /\ [][RecallNext]_vars

\* ------------------------------------------------------------------ properties
Heap == elephant.heap
Oids == 1..Len(Heap)

PhaseRank(ph) == CHOOSE i \in 1..Len(PhaseOrder) : PhaseOrder[i] = ph

\* a call that started and returned in this step (breath_cycle() spans five)
CallReturned(op) == pc = "idle" /\ pc' = "idle" /\ ret'.op = op /\ vars' # vars

\* C1: in every step (ingest, an advance step on its own, each of the five
\* steps of breath_cycle) the phase of every memory stays or moves to the
\* immediate successor in PhaseOrder, never backward and never by two; a new
\* memory starts in INTAKE
C1_PhaseOrder ==
    [][ /\ \A oid \in Oids :
             \/ elephant'.heap[oid].phase = Heap[oid].phase
             \/ PhaseRank(elephant'.heap[oid].phase) = PhaseRank(Heap[oid].phase) + 1
        /\ \A oid \in (1..Len(elephant'.heap)) \ Oids :
             elephant'.heap[oid].phase = "INTAKE" ]_vars

\* two memories, one gone through every phase and one promoted once
C1_Witness ==
    \E a, b \in Oids :
        /\ Heap[a].phase = "ECHO_AMPLIFY"
        /\ Heap[b].phase = "TRUNK_SORT"

\* the places (page, position) at which the pages hold the object oid
Places(oid) ==
    {<<p, i>> \in (1..TOTAL_PAGES) \X (1..Len(Heap)) :
        i <= Len(elephant.pages[p]) /\ elephant.pages[p][i] = oid}

\* C2: every memory of genome_index is held at exactly one place of the
\* pages, in a page of the range PHASES gives its phase field
C2_OneBucketOfPhase ==
    \A g \in DOMAIN elephant.genome_index :
        LET oid == elephant.genome_index[g]
        IN  /\ Heap[oid].genome = g
            /\ Cardinality(Places(oid)) = 1
            /\ \A pl \in Places(oid) : pl[1] \in PHASES[Heap[oid].phase]

\* one memory moved to page 17 while another waits in page 9
C2_Witness ==
    /\ Len(elephant.pages[17]) = 1
    /\ Len(elephant.pages[9]) = 1
    /\ Heap[elephant.pages[17][1]].phase = "HERD_CONSENSUS"

\* C3: an ingest of content whose genome is already in genome_index creates
\* no memory, returns that genome, and adds exactly one to that memory's
\* echo_count, in whatever phase the memory is
C3_IngestDeduplicates ==
    [][ (CallReturned("ingest")
         /\ _compute_genome(ret'.args[1]) \in DOMAIN elephant.genome_index)
        => LET g == _compute_genome(ret'.args[1])
               oid == elephant.genome_index[g]
           IN  /\ Len(elephant'.heap) = Len(Heap)
               /\ elephant'.genome_index = elephant.genome_index
               /\ elephant'.pages = elephant.pages
               /\ ~ret'.raised
               /\ ret'.result = g
               /\ Heap[oid].genome = g
               /\ elephant'.heap[oid].echo_count = Heap[oid].echo_count + 1
               /\ elephant'.heap[oid].phase = Heap[oid].phase ]_vars

\* the content ingested twice, and again after the memory left INTAKE
C3_Witness ==
    /\ ret.op = "ingest"
    /\ Len(Heap) = 1
    /\ Heap[1].genome = ret.result
    /\ Heap[1].echo_count = 1
    /\ Heap[1].phase = "MEMORY_ENCODE"

\* the memory count a caller sees: two ingests of one content, one memory
C3_WitnessTwice ==
    /\ ret.op = "ingest"
    /\ Len(Heap) = 1
    /\ Heap[1].echo_count = 1
    /\ Heap[1].phase = "INTAKE"

Points == store40d.data
Positions == 1..Len(Points)

\* the positions (zero based, as results give them) of the points of content r
Holding(r) == {p - 1 : p \in {q \in Positions : Points[q].data = r}}

\* the one filter of the last query, when it was a query of one filter
LastFilter == ret.args[1][1]
LastOperator == OperatorGet(ret.args[2], LastFilter[1])

\* C4: a store call that returns appends exactly one point, whatever is held
\* already: the points held before are kept, the new last point holds the
\* content, total_stored grows by one and the genome returned is the genome
\* of every point of that content; an equality query that returns and whose
\* filter a content matches returns every point of that content
C4_StoreNeverDeduplicates ==
    /\ [][ (CallReturned("store") /\ ~ret'.raised)
            => /\ store40d'.data = Append(Points, store40d'.data[Len(store40d'.data)])
               /\ store40d'.data[Len(store40d'.data)].data = ret'.args[1]
               /\ store40d'.stats.total_stored = store40d.stats.total_stored + 1
               /\ \A p \in 1..Len(store40d'.data) :
                     store40d'.data[p].data = ret'.args[1]
                        => store40d'.data[p].genome = ret'.result ]_vars
    /\ [](( /\ ret.op = "query"
            /\ ~ret.raised
            /\ LastOperator = "=="
            /\ IsDimension(LastFilter[1]) )
          => \A p \in Positions :
                LET r == Points[p].data
                IN  (HasKey(r, LastFilter[1]) /\ DictGet(r, LastFilter[1]) = LastFilter[2]
                        /\ ~IsNull(LastFilter[2]))
                    => /\ Holding(r) \subseteq ret.result
                       /\ Cardinality(Holding(r) \cap ret.result) = Cardinality(Holding(r)))

\* one content stored three times, then found three times by an equality query
C4_Witness ==
    /\ ret.op = "query"
    /\ ~ret.raised
    /\ Len(Points) = 3
    /\ Points[1].data = Points[2].data
    /\ Points[2].data = Points[3].data
    /\ Points[1].genome = Points[3].genome
    /\ store40d.stats.total_stored = 3
    /\ ret.result = {0, 1, 2}

\* C5: a step appends a generation snapshot exactly when it is the
\* generational_pass of a breath_cycle() that promotes more than 10 memories
\* out of MEMORY_ENCODE; the snapshot carries the generation number and the
\* counter grows by exactly one; every other step leaves archive and counter
\* alone, so a breath_cycle() returns with at most one more snapshot than it
\* was called with
C5_SnapshotIffMoreThanTen ==
    [][ /\ IF pc = "generational_pass"
              /\ Cardinality({oid \in Oids : Heap[oid].phase = "MEMORY_ENCODE"
                                 /\ elephant'.heap[oid].phase = "GENERATIONAL_PASS"}) > 10
           THEN /\ Len(elephant'.generations) = Len(elephant.generations) + 1
                /\ SubSeq(elephant'.generations, 1, Len(elephant.generations))
                      = elephant.generations
                /\ elephant'.generations[Len(elephant'.generations)].generation
                      = elephant.current_generation
                /\ elephant'.current_generation = elephant.current_generation + 1
           ELSE /\ elephant'.generations = elephant.generations
                /\ elephant'.current_generation = elephant.current_generation
        /\ (pc = "echo_amplify" /\ pc' = "idle")
              => /\ Len(elephant'.generations) <= Len(cycle_entry.generations) + 1
                 /\ elephant'.current_generation <= cycle_entry.current_generation + 1
                 /\ (Len(elephant'.generations) = Len(cycle_entry.generations) + 1)
                       <=> ret'.result[4][2] > 10 ]_vars

\* a breath_cycle() that has just promoted 11 memories and made a snapshot
C5_Witness ==
    /\ pc = "echo_amplify"
    /\ cycle_stats[4][2] = 11
    /\ Len(elephant.generations) = 1
    /\ elephant.current_generation = 1

\* a breath_cycle() that has just promoted 10 memories and made no snapshot
C5_WitnessTen ==
    /\ pc = "echo_amplify"
    /\ cycle_stats[4][2] = 10
    /\ Len(elephant.generations) = 0
    /\ elephant.current_generation = 0

\* C6: the strength of a memory is 1.0 (10 tenths) when the memory is
\* created, lies in [0, 1] in every state and is never lowered by a step
C6_StrengthNeverDecreases ==
    /\ [](\A oid \in Oids : Heap[oid].strength >= 0 /\ Heap[oid].strength <= 10)
    /\ [][ /\ \A oid \in Oids : elephant'.heap[oid].strength >= Heap[oid].strength
           /\ \A oid \in (1..Len(elephant'.heap)) \ Oids :
                 elephant'.heap[oid].strength = 10 ]_vars

\* a memory strengthened by herd_consensus and one re-set by memory_encode
C6_Witness ==
    \E a, b \in Oids :
        /\ Heap[a].phase = "HERD_CONSENSUS"
        /\ Heap[a].herd_validations = 2
        /\ Heap[a].strength = 10
        /\ Heap[b].phase = "MEMORY_ENCODE"
        /\ Heap[b].strength = 10

\* the result of the equality query {k: v} in the current state
EqualityQuery(k, v) == query(store40d, <<<<k, v>>>>, <<>>)

\* C7 as claimed: after a store that returns, for every schema dimension k
\* that is a key of the record stored, a null value included, the equality
\* query {k: r[k]} returns the point just stored
C7_StoredThenFound ==
    (ret.op = "store" /\ ~ret.raised)
    => \A k \in DictKeys(ret.args[1]) :
          IsDimension(k)
          => LET q == EqualityQuery(k, DictGet(ret.args[1], k))
             IN  ~q.raised /\ (Len(Points) - 1) \in q.result

\* C7 as amended: for every point held and every schema dimension k that is
\* a key of its content with a value other than null, the equality query
\* {k: r[k]} returns that point
C7_StoredThenFoundNonNull ==
    \A p \in Positions :
        \A k \in DictKeys(Points[p].data) :
            (IsDimension(k) /\ ~IsNull(DictGet(Points[p].data, k)))
            => LET q == EqualityQuery(k, DictGet(Points[p].data, k))
               IN  ~q.raised /\ (p - 1) \in q.result

\* a record with a null and a non-null dimension has just been stored, after
\* another record
C7_Witness ==
    /\ ret.op = "store"
    /\ ~ret.raised
    /\ Len(Points) = 2
    /\ HasKey(Points[2].data, "sector")
    /\ IsNull(DictGet(Points[2].data, "sector"))
    /\ DictGet(Points[2].data, "quality_score") = IntVal(2)
    /\ EqualityQuery("quality_score", IntVal(2)).result = {1}

\* the comparison the claim states, on numbers
Satisfies(op, c, t) ==
    CASE op = ">=" -> c >= t
      [] op = ">"  -> c > t
      [] op = "<=" -> c <= t
      [] op = "<"  -> c < t

\* the coordinate of the point at position p on the dimension of the last filter
LastCoordinate(p) == Points[p].coordinates[DimIndex(LastFilter[1]) + 1]

\* C8: a range query (>=, >, <=, <) on one dimension with a numeric
\* threshold t returns, when every non-null coordinate of that dimension is
\* a number, and whenever it returns at all, exactly the points whose
\* coordinate is non-null and satisfies the comparison with t
C8_RangeQueryExact ==
    ( /\ ret.op = "query"
      /\ LastOperator \in RangeOps
      /\ IsDimension(LastFilter[1])
      /\ IsInt(LastFilter[2]) )
    => /\ (\A p \in Positions : IsNull(LastCoordinate(p)) \/ IsInt(LastCoordinate(p)))
            => ~ret.raised
       /\ ~ret.raised
            => ret.result =
                 {p - 1 : p \in {q \in Positions :
                     /\ ~IsNull(LastCoordinate(q))
                     /\ Satisfies(LastOperator, LastCoordinate(q)[2], LastFilter[2][2])}}

\* quality_score >= 2 over points with quality_score 1, 2 and none: only the
\* point at the boundary is returned
C8_Witness ==
    /\ ret.op = "query"
    /\ ~ret.raised
    /\ LastOperator = ">="
    /\ LastFilter = <<"quality_score", IntVal(2)>>
    /\ Len(Points) = 3
    /\ Points[1].coordinates[31] = IntVal(1)
    /\ Points[2].coordinates[31] = IntVal(2)
    /\ IsNull(Points[3].coordinates[31])
    /\ ret.result = {1}

\* C9 as claimed: a store or ingest call that raises leaves the store and the
\* engine exactly as they were before the call
C9_AllOrNothing ==
    [][ (pc = "idle" /\ pc' = "idle" /\ ret'.op \in {"store", "ingest"} /\ ret'.raised)
        => (store40d' = store40d /\ elephant' = elephant) ]_vars

RECURSIVE SumValues(_, _)
SumValues(points, p) ==
    IF p > Len(points) THEN 0
    ELSE (IF IsInt(DictGet(points[p].data, "value"))
          THEN DictGet(points[p].data, "value")[2] ELSE 0)
         + SumValues(points, p + 1)

\* C10: the pool is the mandate fraction times the sum of the numeric
\* "value" fields of the points held (pool in hundredths, fraction 15
\* hundredths), and a store of a record without "value" leaves the pool as
\* it was
C10_PoolIsFractionOfValues ==
    /\ [](store40d.care_pool = 15 * SumValues(Points, 1))
    /\ [][ (CallReturned("store") /\ ~HasKey(ret'.args[1], "value"))
            => store40d'.care_pool = store40d.care_pool ]_vars

\* values 1000, 2000 and 500 stored: the pool is 525.00
C10_Witness ==
    /\ Len(Points) = 3
    /\ {DictGet(Points[p].data, "value") : p \in Positions}
          = {IntVal(1000), IntVal(2000), IntVal(500)}
    /\ store40d.care_pool = 52500

\* C11 as claimed: no step makes the pool smaller, whatever the record
\* stored (a negative or zero "value" included)
C11_PoolNeverDecreases ==
    [][store40d'.care_pool >= store40d.care_pool]_vars

NoDuplicates(s) == \A i, j \in 1..Len(s) : s[i] = s[j] => i = j

\* C12: the association list of every memory has at most max_associations
\* (five) entries, holds no hash twice and never holds the memory's own hash
C12_AssociationsBounded ==
    \A oid \in Oids :
        /\ Len(Heap[oid].associations) <= 5
        /\ NoDuplicates(Heap[oid].associations)
        /\ Heap[oid].genome \notin SeqToSet(Heap[oid].associations)

\* an encoded memory whose tag is shared by more than five others, its own
\* hash first in the tag's list: it holds the five hashes that follow its own
C12_Witness ==
    \E oid \in Oids :
        LET m == Heap[oid]
            related_genomes == TagGet(elephant.tag_index, "t1")
        IN  /\ m.phase = "MEMORY_ENCODE"
            /\ m.tags = <<"t1">>
            /\ Len(related_genomes) > 6
            /\ related_genomes[1] = m.genome
            /\ m.associations = SubSeq(related_genomes, 2, 6)

\* the content-and-hash pairs in sight: every point of the hypercube, every
\* memory of the engine, and the argument and result of the store or ingest
\* call that returned last
Hashed ==
    {<<Points[p].data, Points[p].genome>> : p \in 1..Len(Points)}
    \cup {<<Heap[oid].content, Heap[oid].genome>> : oid \in Oids}
    \cup (IF ret.op \in {"store", "ingest"} /\ ~ret.raised
          THEN {<<ret.args[1], ret.result>>} ELSE {})

\* C13: two contents with the same keys and values have the same hash,
\* whatever the order of their keys, whichever of store and ingest hashed
\* them, and whatever was stored or ingested before
C13_HashOfMappingOnly ==
    \A a, b \in Hashed : SeqToSet(a[1]) = SeqToSet(b[1]) => a[2] = b[2]

\* one mapping stored in one key order and then ingested in the other, after
\* a different content was stored: the memory and the first point differ in
\* key order and agree on the hash
C13_Witness ==
    /\ Len(Points) >= 2
    /\ ret.op = "ingest"
    /\ \E oid \in Oids :
          /\ Heap[oid].content # Points[2].data
          /\ SeqToSet(Heap[oid].content) = SeqToSet(Points[2].data)
          /\ Heap[oid].genome = Points[2].genome
          /\ ret.result = Points[2].genome
    /\ SeqToSet(Points[1].data) # SeqToSet(Points[2].data)

RECURSIVE SumCounts(_, _)
SumCounts(counts, phases) ==
    IF phases = {} THEN 0
    ELSE LET ph == CHOOSE x \in phases : TRUE
         IN  counts[ph] + SumCounts(counts, phases \ {ph})

\* C14 as claimed: whenever a reader runs, between any two statements of
\* trunk_sort() or store(), every memory is held in exactly one bucket, that
\* bucket is one of its phase field, a histogram read counts every memory
\* once, and every posting-list entry points at a position that holds a
\* record with that coordinate
C14_NoPartialState ==
    /\ \A oid \in Oids :
          /\ Cardinality(Places(oid)) = 1
          /\ \A pl \in Places(oid) : pl[1] \in PHASES[Heap[oid].phase]
    /\ ret.op = "get_stats"
          => SumCounts(ret.result.memories_by_phase, DOMAIN ret.result.memories_by_phase)
                = ret.result.total_memories
    /\ ret.op = "recall"
          => \A j \in 1..Len(ret.result) : ret.result[j].page \in PHASES[ret.result[j].phase]
    /\ \A key \in DOMAIN store40d.index :
          \A j \in 1..Len(store40d.index[key]) :
              LET pos == store40d.index[key][j]
              IN  /\ pos < Len(Points)
                  /\ IndexKey(key[1], Points[pos + 1].coordinates[key[1] + 1]) = key

\* the step with which a breath_cycle() returns
CycleReturns == pc = "echo_amplify" /\ pc' = "idle"

\* the memories that were in INTAKE when the running breath_cycle() was called
IntakeAtEntry == {oid \in 1..Len(cycle_entry.heap) : cycle_entry.heap[oid].phase = "INTAKE"}

\* C15 as claimed: a memory that is in INTAKE when breath_cycle() is called
\* is still in INTAKE when that call returns
C15_IntakeUntouchedByCycle ==
    [][ CycleReturns
        => \A oid \in IntakeAtEntry : elephant'.heap[oid].phase = "INTAKE" ]_vars

\* C15 amended: a memory that is in INTAKE when breath_cycle() is called is
\* processed by that call: trunk_sort promotes it, herd_consensus validates
\* it once without promoting it, and it is in TRUNK_SORT, page 9, one phase
\* further and no more, when the call returns
C15_IntakePromotedOnceByCycle ==
    [][ CycleReturns
        => \A oid \in IntakeAtEntry :
              /\ elephant'.heap[oid].phase = "TRUNK_SORT"
              /\ elephant'.heap[oid].herd_validations = 1
              /\ oid \in SeqToSet(elephant'.pages[9]) ]_vars

\* a breath_cycle() has returned with trunk_sorted above zero, and a memory
\* is in TRUNK_SORT with its first validation
C15_Witness ==
    /\ pc = "idle"
    /\ ret.op = "breath_cycle"
    /\ ret.result[1][1] = "trunk_sorted"
    /\ ret.result[1][2] > 0
    /\ \E oid \in Oids : Heap[oid].phase = "TRUNK_SORT" /\ Heap[oid].herd_validations = 1

\* the memories a step takes from one phase to another
Promoted(from, to) ==
    {oid \in Oids : Heap[oid].phase = from /\ elephant'.heap[oid].phase = to}

\* a step of breath_cycle() that promotes from one phase to the next and no
\* other memory, and reports under key the number it promoted
CycleStepCounts(stats, key, from, to) ==
    /\ \A oid \in Oids \ Promoted(from, to) : elephant'.heap[oid].phase = Heap[oid].phase
    /\ stats = Append(cycle_stats, <<key, Cardinality(Promoted(from, to))>>)

\* C16: breath_cycle() runs trunk_sort, herd_consensus, memory_encode,
\* generational_pass and echo_amplify once each in that order, each step
\* promoting out of its own phase only, and returns the five counts of
\* memories promoted under the five keys in that order; called on an engine
\* without memories it returns five zeros and changes nothing but loop_count
C16_CycleRunsFiveStepsInOrder ==
    [][ /\ (pc = "idle" /\ pc' # "idle")
            => /\ pc' = "herd_consensus"
               /\ CycleStepCounts(cycle_stats', "trunk_sorted", "INTAKE", "TRUNK_SORT")
        /\ pc = "herd_consensus"
            => /\ pc' = "memory_encode"
               /\ CycleStepCounts(cycle_stats', "herd_validated", "TRUNK_SORT", "HERD_CONSENSUS")
        /\ pc = "memory_encode"
            => /\ pc' = "generational_pass"
               /\ CycleStepCounts(cycle_stats', "encoded", "HERD_CONSENSUS", "MEMORY_ENCODE")
        /\ pc = "generational_pass"
            => /\ pc' = "echo_amplify"
               /\ CycleStepCounts(cycle_stats', "generational_passed",
                                  "MEMORY_ENCODE", "GENERATIONAL_PASS")
        /\ pc = "echo_amplify"
            => /\ pc' = "idle"
               /\ ret'.op = "breath_cycle"
               /\ ~ret'.raised
               /\ Len(ret'.result) = 5
               /\ CycleStepCounts(ret'.result, "echo_amplified",
                                  "GENERATIONAL_PASS", "ECHO_AMPLIFY")
               /\ elephant'.loop_count = cycle_entry.loop_count + 1
        /\ (CycleReturns /\ cycle_entry.heap = <<>>)
            => /\ \A k \in 1..5 : ret'.result[k][2] = 0
               /\ elephant' = [cycle_entry EXCEPT !.loop_count = @ + 1] ]_vars

\* a breath_cycle() has returned in which every one of the five steps
\* promoted a memory
C16_Witness ==
    /\ pc = "idle"
    /\ ret.op = "breath_cycle"
    /\ ret.result = << <<"trunk_sorted", 1>>, <<"herd_validated", 1>>, <<"encoded", 1>>,
                       <<"generational_passed", 1>>, <<"echo_amplified", 1>> >>

\* a breath_cycle() has returned on an engine that holds no memory
C16_WitnessEmpty ==
    /\ pc = "idle"
    /\ ret.op = "breath_cycle"
    /\ Heap = <<>>
    /\ elephant.loop_count = 1

\* C17 as claimed: a query with no filter returns every point held
C17_EmptyFilterReturnsAll ==
    (ret.op = "query" /\ ret.args[1] = <<>>)
    => /\ ~ret.raised
       /\ ret.result = {p - 1 : p \in Positions}

\* the filters of the last query and its operators
LastFilters == ret.args[1]
LastOperators == ret.args[2]

\* the filters of the last query whose name is, or is not, a schema dimension
SchemaFilters == {i \in 1..Len(LastFilters) : IsDimension(LastFilters[i][1])}
UnknownFilters == {i \in 1..Len(LastFilters) : ~IsDimension(LastFilters[i][1])}

\* a sequence without its i-th element
Without(s, i) == SubSeq(s, 1, i - 1) \o SubSeq(s, i + 1, Len(s))

\* C18: a filter on a name outside the schema changes nothing: the query
\* returns the entries, or raises the error, that the same query without
\* that filter returns or raises, and so it fails only where the query
\* without it fails
C18_UnknownFilterIgnored ==
    ret.op = "query"
    => \A i \in UnknownFilters :
          LET r == query(store40d, Without(LastFilters, i), LastOperators)
          IN  /\ ret.raised = r.raised
              /\ ret.result = r.result

\* a query of two schema filters and one unknown name has returned an entry
C18_Witness ==
    /\ ret.op = "query"
    /\ ~ret.raised
    /\ UnknownFilters # {}
    /\ Cardinality(SchemaFilters) = 2
    /\ ret.result # {}
    /\ Len(Points) = 3

\* what the i-th filter of the last query returns as the only filter
AloneResult(i) == query(store40d, <<LastFilters[i]>>, LastOperators).result

C19_WitnessNoMatch ==
    /\ ret.op = "query"
    /\ ~ret.raised
    /\ Cardinality(SchemaFilters) = 2
    /\ AloneResult(1) = {}
    /\ AloneResult(2) # {}
    /\ ret.result = {}

\* the place of a memory in the scan of recall: buckets in their order, each
\* bucket in the order of insertion
ScanIndex(oid) == CHOOSE i \in 1..Len(Held(elephant)) : Held(elephant)[i] = oid

\* C20: recall without a hash returns at most limit memories, each held by
\* the engine and returned once, each with one of the tags asked for when
\* tags are given and in the phase asked for when a phase is given, no memory
\* after one it ranks above by (strength, echo_count), and memories of equal
\* rank in the order of the scan
C20_RecallFiltersAndRanks ==
    (ret.op = "recall" /\ ret.args[1] = NoGenome)
    => LET results == ret.result
           tags    == ret.args[2]
           phase   == ret.args[3]
           limit   == ret.args[4]
       IN  /\ Len(results) <= limit
           /\ \A j \in 1..Len(results) :
                 /\ results[j] \in SeqToSet(Held(elephant))
                 /\ tags # <<>>
                       => SeqToSet(tags) \cap SeqToSet(Heap[results[j]].tags) # {}
                 /\ phase # NoPhase => Heap[results[j]].phase = phase
           /\ \A j, k \in 1..Len(results) :
                 j < k => /\ ~RankAbove(Heap[results[k]], Heap[results[j]])
                          /\ ~RankAbove(Heap[results[j]], Heap[results[k]])
                                => ScanIndex(results[j]) < ScanIndex(results[k])

\* three memories match and two are returned: an echoed memory met second in
\* the scan comes first, and of two memories of equal rank the one met first
\* in the scan comes first in a recall of all
C20_Witness ==
    /\ ret.op = "recall"
    /\ ret.args[4] = 2
    /\ Len(ret.result) = 2
    /\ Len(recall(elephant, NoGenome, ret.args[2], ret.args[3], 100)) = 3
    /\ RankAbove(Heap[ret.result[1]], Heap[ret.result[2]])
    /\ ScanIndex(ret.result[1]) > ScanIndex(ret.result[2])

\* C21: an import_json that returns, of a file holding exactly the points the
\* store holds, leaves the store as calling store() again for each record
\* would: every record is held twice as often as before and total_stored has
\* grown by the number of records of the file
C21_ImportDuplicatesHeldRecords ==
    [][ ( /\ CallReturned("import_json")
          /\ ~ret'.raised
          /\ files.hypercube # NoFile
          /\ Points # <<>>
          /\ files.hypercube[1].data = Points )
        => /\ store40d'.data = ImportReplay(store40d, Points, 1).state.data
           /\ \A p \in Positions :
                 Cardinality({q \in 1..Len(store40d'.data) :
                                 store40d'.data[q].data = Points[p].data})
                    = 2 * Cardinality(Holding(Points[p].data))
           /\ store40d'.stats.total_stored = store40d.stats.total_stored + Len(Points) ]_vars

\* C22: on an engine with a store, once an ingest has sent the store a point
\* whose "elephant_phase" is "INTAKE", a query {"elephant_phase": "INTAKE"}
\* that returns gives at least one entry, and the data of every entry it gives
\* has the keys "elephant_generation" and "elephant_strength"
C22_QueryByPhaseFindsEnriched ==
    ( /\ elephant.store40d
      /\ ret.op = "query"
      /\ ~ret.raised
      /\ ret.args[1] = <<<<"elephant_phase", StrVal("INTAKE")>>>>
      /\ \E p \in Positions :
            /\ HasKey(Points[p].data, "elephant_phase")
            /\ DictGet(Points[p].data, "elephant_phase") = StrVal("INTAKE") )
    => /\ ret.result # {}
       /\ \A i \in ret.result :
             /\ HasKey(Points[i + 1].data, "elephant_generation")
             /\ HasKey(Points[i + 1].data, "elephant_strength")

\* C23: recall with a hash returns the one memory of that hash, whatever its
\* phase and its tags and whatever tags and phase the call passes, and the
\* empty list when no memory has the hash
C23_RecallByHash ==
    (ret.op = "recall" /\ ret.args[1] # NoGenome)
    => IF \E oid \in Oids : Heap[oid].genome = ret.args[1]
       THEN /\ Len(ret.result) = 1
            /\ ret.result[1] \in SeqToSet(Held(elephant))
            /\ \A oid \in Oids : Heap[oid].genome = ret.args[1] <=> oid = ret.result[1]
       ELSE ret.result = <<>>

\* a memory in INTAKE with tag t2 only is returned by its hash to a call that
\* asks for tags zz, t1 and phase TRUNK_SORT
C23_Witness ==
    /\ ret.op = "recall"
    /\ ret.args[1] # NoGenome
    /\ ret.args[2] = <<"zz", "t1">>
    /\ ret.args[3] = "TRUNK_SORT"
    /\ Len(ret.result) = 1
    /\ Heap[ret.result[1]].phase = "INTAKE"
    /\ Heap[ret.result[1]].tags = <<"t2">>
    /\ Heap[ret.result[1]].genome = ret.args[1]

\* a hash no memory has, while the engine holds memories: the empty list
C23_WitnessUnknownHash ==
    /\ ret.op = "recall"
    /\ ret.args[1] # NoGenome
    /\ Oids # {}
    /\ ret.result = <<>>

\* a herd_consensus step: called on its own, or as the second step of
\* breath_cycle()
HerdStep ==
    \/ pc = "idle" /\ pc' = "idle" /\ ret'.op = "herd_consensus"
    \/ pc = "herd_consensus" /\ pc' = "memory_encode"

\* C24: a herd_consensus step adds exactly one to herd_validations of every
\* memory in TRUNK_SORT, promotes to HERD_CONSENSUS exactly those whose
\* counter is 2 after it, and touches no other memory; no other step changes
\* a counter; so the counter is 0 in INTAKE, at most 1 in TRUNK_SORT (two
\* steps are spent there) and exactly 2 in every later phase
C24_HerdCounter ==
    /\ [][ HerdStep
           => \A oid \in Oids :
                 IF Heap[oid].phase = "TRUNK_SORT"
                 THEN /\ elephant'.heap[oid].herd_validations
                            = Heap[oid].herd_validations + 1
                      /\ elephant'.heap[oid].phase \in {"TRUNK_SORT", "HERD_CONSENSUS"}
                      /\ elephant'.heap[oid].phase = "HERD_CONSENSUS"
                            <=> elephant'.heap[oid].herd_validations = 2
                 ELSE elephant'.heap[oid] = Heap[oid] ]_vars
    /\ [][ ~HerdStep
           => \A oid \in Oids :
                 elephant'.heap[oid].herd_validations = Heap[oid].herd_validations ]_vars
    /\ [](\A oid \in Oids :
             /\ Heap[oid].phase = "INTAKE" => Heap[oid].herd_validations = 0
             /\ Heap[oid].phase = "TRUNK_SORT" => Heap[oid].herd_validations \in {0, 1}
             /\ PhaseRank(Heap[oid].phase) > PhaseRank("TRUNK_SORT")
                   => Heap[oid].herd_validations = 2)

\* a herd_consensus step has promoted a memory on its second validation and
\* given another its first; a third phase holds a memory validated twice
C24_Witness ==
    /\ ret.op = "herd_consensus"
    /\ ret.result = 1
    /\ \E a, b \in Oids :
          /\ Heap[a].phase = "HERD_CONSENSUS" /\ Heap[a].herd_validations = 2
          /\ Heap[b].phase = "TRUNK_SORT" /\ Heap[b].herd_validations = 1

\* the memories that were in TRUNK_SORT when the running breath_cycle() was
\* called
TrunkSortAtEntry ==
    {oid \in 1..Len(cycle_entry.heap) : cycle_entry.heap[oid].phase = "TRUNK_SORT"}

EncodeStep ==
    \/ pc = "idle" /\ pc' = "idle" /\ ret'.op = "memory_encode"
    \/ pc = "memory_encode" /\ pc' = "generational_pass"

\* the hash g is met at place j of the tag index's list for the i-th tag of m
Met(m, g, i, j) ==
    /\ i \in 1..Len(m.tags)
    /\ j \in 1..Len(TagGet(elephant.tag_index, m.tags[i]))
    /\ TagGet(elephant.tag_index, m.tags[i])[j] = g

\* the walk over the tags of m and their lists meets g before it meets h
MetBefore(m, g, h) ==
    \E i \in 1..Len(m.tags) :
       \E j \in 1..Len(TagGet(elephant.tag_index, m.tags[i])) :
          /\ Met(m, g, i, j)
          /\ \A i2 \in 1..Len(m.tags) :
                \A j2 \in 1..Len(TagGet(elephant.tag_index, m.tags[i2])) :
                   Met(m, h, i2, j2) => (i < i2 \/ (i = i2 /\ j < j2))

\* the hashes of the other memories that share a tag with m
SharingTag(m) ==
    {Heap[o].genome : o \in {x \in Oids : /\ Heap[x].genome # m.genome
                                          /\ SeqToSet(Heap[x].tags) \cap SeqToSet(m.tags) # {}}}

\* C28: a memory_encode step gives each memory it promotes from
\* HERD_CONSENSUS an association list without repeats, of at most 5 hashes,
\* each the hash of another memory that shares a tag with it, in the order in
\* which the walk over its tags and the tag index meets them, with no hash
\* left out that the walk meets before one that is listed; all the sharing
\* memories are listed when they are fewer than 5, and 5 otherwise
C28_AssociationsOnEncode ==
    [][ EncodeStep
        => \A oid \in Oids :
              (Heap[oid].phase = "HERD_CONSENSUS"
                 /\ elephant'.heap[oid].phase = "MEMORY_ENCODE")
              => LET m == Heap[oid]
                     associations == elephant'.heap[oid].associations
                 IN  /\ NoDuplicates(associations)
                     /\ SeqToSet(associations) \subseteq SharingTag(m)
                     /\ Len(associations) = Min(5, Cardinality(SharingTag(m)))
                     /\ \A a, b \in 1..Len(associations) :
                           a < b => MetBefore(m, associations[a], associations[b])
                     /\ \A g \in SharingTag(m) \ SeqToSet(associations) :
                           \A a \in 1..Len(associations) :
                              MetBefore(m, associations[a], g) ]_vars

\* an encoded memory with tags t2, t1 in that order: more than five others
\* share t2, so its five associations all have t2, and a memory that has t1
\* only and was ingested first is left out
C28_Witness ==
    \E oid, other \in Oids :
        /\ Heap[oid].phase = "MEMORY_ENCODE"
        /\ Heap[oid].tags = <<"t2", "t1">>
        /\ Len(Heap[oid].associations) = 5
        /\ Heap[other].tags = <<"t1">>
        /\ other < oid
        /\ Heap[other].genome \notin SeqToSet(Heap[oid].associations)

\* an encoded memory that shares its tag with two others and holds both
C28_WitnessFew ==
    \E oid \in Oids :
        /\ Heap[oid].phase = "MEMORY_ENCODE"
        /\ Cardinality(SharingTag(Heap[oid])) = 2
        /\ Len(Heap[oid].associations) = 2

\* C26: an equality query on a schema dimension with a non-null value v that
\* returns gives exactly the points whose coordinate on the dimension is v,
\* and a member-of query exactly the points whose coordinate is one of the
\* candidates: a point whose coordinate is another value written the same way
\* (the number 1 for the string "1") is not given
C26_EqualityByValue ==
    ( /\ ret.op = "query"
      /\ ~ret.raised
      /\ IsDimension(LastFilter[1])
      /\ LastOperator \in {"==", "in"} )
    => /\ (LastOperator = "==" /\ ~IsNull(LastFilter[2]))
             => ret.result = {p - 1 : p \in {q \in Positions :
                                                LastCoordinate(q) = LastFilter[2]}}
       /\ LastOperator = "in"
             => ret.result = {p - 1 : p \in {q \in Positions :
                                                LastCoordinate(q)
                                                   \in SeqToSet(LastFilter[2][2])}}

\* the memories recall's two tests keep: every held memory that has one of
\* the tags asked for and is in the phase asked for
Matching(tags, phase) ==
    {oid \in SeqToSet(Held(elephant)) : RecallKeeps(Heap[oid], tags, phase)}

\* C27: a recall without a hash that more than limit memories match returns
\* limit of them, and no matching memory that is left out ranks above one
\* that is returned
C27_RecallReturnsHighestRanked ==
    ( /\ ret.op = "recall"
      /\ ret.args[1] = NoGenome
      /\ Cardinality(Matching(ret.args[2], ret.args[3])) > ret.args[4] )
    => /\ Len(ret.result) = ret.args[4]
       /\ \A out \in Matching(ret.args[2], ret.args[3]) \ SeqToSet(ret.result) :
             \A j \in 1..Len(ret.result) :
                ~RankAbove(Heap[out], Heap[ret.result[j]])

\* C29: an ingest of content whose genome is already in genome_index, with
\* whatever tags, adds one to that memory's echo_count and to total_echoes
\* and changes nothing else: not the memory's phase, page, strength, tags,
\* associations or generation, not the pages, the tag index, the other
\* statistics, the archive of generations, or the store
C29_DuplicateIngestOnlyEchoes ==
    [][ (CallReturned("ingest")
         /\ _compute_genome(ret'.args[1]) \in DOMAIN elephant.genome_index)
        => LET oid == elephant.genome_index[_compute_genome(ret'.args[1])]
           IN  /\ elephant'.heap[oid] = [Heap[oid] EXCEPT !.echo_count = @ + 1]
               /\ \A o \in Oids \ {oid} : elephant'.heap[o] = Heap[o]
               /\ Len(elephant'.heap) = Len(Heap)
               /\ elephant'.stats = [elephant.stats EXCEPT !.total_echoes = @ + 1]
               /\ elephant'.pages = elephant.pages
               /\ elephant'.genome_index = elephant.genome_index
               /\ elephant'.tag_index = elephant.tag_index
               /\ elephant'.generations = elephant.generations
               /\ elephant'.current_generation = elephant.current_generation
               /\ store40d' = store40d ]_vars

\* an engine with a store: a memory ingested without tags and encoded since
\* has been ingested again, with tags t2 and t1, and the tag index is empty
C29_Witness ==
    /\ ret.op = "ingest"
    /\ ~ret.raised
    /\ elephant.store40d
    /\ ret.args[2] = <<"t2", "t1">>
    /\ ret.result \in DOMAIN elephant.genome_index
    /\ LET m == Heap[elephant.genome_index[ret.result]]
       IN  /\ m.tags = <<>>
           /\ m.phase = "MEMORY_ENCODE"
           /\ m.echo_count = 1
    /\ elephant.tag_index = <<>>
    /\ store40d.stats.total_stored = 1

\* the lifecycle keys _store_in_40d adds to a copy of the content
LifecycleKeys ==
    {"genome", "elephant_phase", "elephant_page", "elephant_generation",
     "elephant_strength", "timestamp"}

\* C30: on an engine with a store, an ingest that creates a memory appends
\* exactly one point to the store, whose data is the content with the
\* lifecycle keys added, and the memory keeps the content as given; an ingest
\* of known content leaves the store alone; so total_stored of a store fed by
\* the engine alone equals total_memories. On an engine without a store an
\* ingest does not raise, leaves the store alone and creates the same memory
C30_IngestStoresOncePerMemory ==
    /\ [][ CallReturned("ingest")
           => IF _compute_genome(ret'.args[1]) \in DOMAIN elephant.genome_index
              THEN store40d' = store40d
              ELSE /\ Len(elephant'.heap) = Len(Heap) + 1
                   /\ elephant'.heap[Len(elephant'.heap)].content = ret'.args[1]
                   /\ elephant'.stats.total_memories = elephant.stats.total_memories + 1
                   /\ IF elephant.store40d
                      THEN /\ Len(store40d'.data) = Len(Points) + 1
                           /\ SubSeq(store40d'.data, 1, Len(Points)) = Points
                           /\ LET d == store40d'.data[Len(store40d'.data)].data
                              IN  /\ DictKeys(d) = DictKeys(ret'.args[1]) \cup LifecycleKeys
                                  /\ \A k \in DictKeys(ret'.args[1]) :
                                        DictGet(d, k) = DictGet(ret'.args[1], k)
                                  /\ DictGet(d, "elephant_phase") = StrVal("INTAKE")
                      ELSE /\ store40d' = store40d
                           /\ ~ret'.raised ]_vars
    /\ [](elephant.store40d
             => store40d.stats.total_stored = elephant.stats.total_memories)

\* how often the position pos occurs in the posting list s
Occurrences(s, pos) == Cardinality({j \in 1..Len(s) : s[j] = pos})

\* C31: between calls of store and import_json, returned or raised, the
\* point at every position occurs exactly once in the posting list of each
\* dimension on which its coordinate is not null, under the key of that
\* coordinate, and in no other list of the dimension; a null coordinate puts
\* it in no list; and every list holds positions of self.data only
C31_PostingListsConsistent ==
    /\ \A p \in Positions :
          \A i \in 0..(NumDims - 1) :
             LET c == Points[p].coordinates[i + 1]
             IN  \A k \in DOMAIN store40d.index :
                    k[1] = i
                    => Occurrences(store40d.index[k], p - 1)
                          = (IF ~IsNull(c) /\ k = IndexKey(i, c) THEN 1 ELSE 0)
    /\ \A p \in Positions :
          \A i \in 0..(NumDims - 1) :
             ~IsNull(Points[p].coordinates[i + 1])
                => IndexKey(i, Points[p].coordinates[i + 1]) \in DOMAIN store40d.index
    /\ \A k \in DOMAIN store40d.index :
          \A j \in 1..Len(store40d.index[k]) :
             store40d.index[k][j] \in 0..(Len(Points) - 1)

\* an import into a store that held the two points of the file: they are
\* held once each, at positions 0 and 1 of one posting list
C31_Witness ==
    /\ ret.op = "import_json"
    /\ ~ret.raised
    /\ Len(Points) = 2
    /\ store40d.stats.total_stored = 4
    /\ \E k \in DOMAIN store40d.index : store40d.index[k] = <<0, 1>>

\* C32: between calls, total_stored is the number of points held,
\* care_redistributed is the pool, and the pool is the mandate fraction (15
\* hundredths) of the sum of the "value" fields of the points held; also
\* after a store that raised and after an import into a store that held
\* points
C32_StatsDescribeStore ==
    /\ store40d.stats.total_stored = Len(Points)
    /\ store40d.stats.care_redistributed = store40d.care_pool
    /\ store40d.care_pool = 15 * SumValues(Points, 1)

C33_WitnessBeyond ==
    /\ ret.op = "get_generational_wisdom"
    /\ ret.args[1] = 1
    /\ elephant.current_generation = 1
    /\ ret.result = <<>>

\* the sum of echo_count over the memories at the places oids
RECURSIVE SumEchoes(_, _)
SumEchoes(oids, i) ==
    IF i > Len(oids) THEN 0 ELSE Heap[oids[i]].echo_count + SumEchoes(oids, i + 1)

\* C34: between calls of ingest, the advance steps and breath_cycle(),
\* total_memories is the number of memories the pages hold and the size of
\* genome_index, and total_echoes is the sum of echo_count over the memories
\* held, which is the number of duplicate ingests plus the number of memories
\* in ECHO_AMPLIFY; an ingest of known content adds one to that sum and a
\* memory reaching ECHO_AMPLIFY adds one
C34_CountersAgreeWithState ==
    /\ [](pc = "idle"
          => /\ elephant.stats.total_memories = Len(Held(elephant))
             /\ elephant.stats.total_memories = Cardinality(DOMAIN elephant.genome_index)
             /\ elephant.stats.total_echoes = SumEchoes(Held(elephant), 1))
    /\ [][ elephant'.stats.total_echoes - elephant.stats.total_echoes
             = (IF pc = "idle" /\ pc' = "idle" /\ ret'.op = "ingest"
                   /\ _compute_genome(ret'.args[1]) \in DOMAIN elephant.genome_index
                THEN 1 ELSE 0)
               + Cardinality({oid \in Oids : /\ Heap[oid].phase # "ECHO_AMPLIFY"
                                             /\ elephant'.heap[oid].phase = "ECHO_AMPLIFY"}) ]_vars

\* two memories in ECHO_AMPLIFY, one of them ingested twice: three echoes
C34_Witness ==
    /\ pc = "idle"
    /\ elephant.stats.total_memories = 2
    /\ \A oid \in Oids : Heap[oid].phase = "ECHO_AMPLIFY"
    /\ elephant.stats.total_echoes = 3

\* C35: after import_wisdom of a file into a fresh engine, every memory of
\* the file is found under its hash with the fields it was exported with and
\* lies in the page it names, the archive is the file's, and the engine's
\* total_memories, average strength and current_generation are the ones the
\* exporter wrote, so that no snapshot of the archive carries the number the
\* next snapshot will get
C35_WisdomRoundTrip ==
    [][ (pc = "idle" /\ pc' = "idle" /\ ret'.op = "import_wisdom")
        => LET file == files.wisdom[1]
           IN  /\ \A i \in 1..Len(file.memories) :
                     /\ file.memories[i].genome \in DOMAIN elephant'.genome_index
                     /\ elephant'.heap[elephant'.genome_index[file.memories[i].genome]]
                           = file.memories[i]
                     /\ elephant'.genome_index[file.memories[i].genome]
                           \in SeqToSet(elephant'.pages[file.memories[i].page])
               /\ elephant'.generations = file.generations
               /\ elephant'.stats.total_memories = file.stats.total_memories
               /\ _calculate_avg_strength(elephant') = file.stats.avg_strength
               /\ elephant'.current_generation = file.stats.current_generation
               /\ \A i \in 1..Len(elephant'.generations) :
                     elephant'.generations[i].generation
                        # elephant'.current_generation ]_vars

\* C36: once the orchestrator has launched the API server and its start-up
\* has completed, the store and the engine api_state references are the
\* orchestrator's own
C36_ApiServesOrchestratorInstances ==
    (tasks.main = "loop" /\ tasks.server = "serving")
        => /\ api_state.store40d = "vault"
           /\ api_state.elephant = "vault"

\* C37: every iteration of the API breath loop that has ended called
\* breath_cycle() exactly once, no removal from the client list made the
\* loop leave an iteration, and none left a connection handler with an error
C37_OneBreathCyclePerIteration ==
    /\ tasks.loop.last \in {-1, 1}
    /\ tasks.loop.pc # "error_sleep"
    /\ \A c \in Clients : tasks.ws[c] # "raised"

\* C38: when a signal ends the orchestrator's eternal loop, the files are
\* those shutdown() writes: the export of the store and that of the engine
C38_SignalExportsState ==
    [][ (tasks.main = "loop" /\ tasks'.main = "exited")
        => files' = shutdown(store40d, elephant, files) ]_vars

\* C39: once the lifespan shutdown has cancelled the breath task and awaits
\* it, the shutdown completes
C39_ShutdownTerminates ==
    (tasks.server = "awaiting") ~> (tasks.server = "stopped")
====
